---------------------------- MODULE Spec2Model ----------------------------
(***************************************************************************)
(* A model of the real-time pipeline of poly-latency-arb-bot:              *)
(*   - PolymarketFeed    (src/src/data/polymarket/market_feed.ts)          *)
(*   - BinanceSpotFeed   (src/src/data/spot/binance_ws.ts)                 *)
(*   - LatencySignalEngine (src/src/strategy/latency_signal.ts)            *)
(* The three components share no state (the entry point does not wire      *)
(* them), so each has its own specification over its own variables.        *)
(*                                                                         *)
(* JavaScript runs one callback at a time: every action below is one       *)
(* macrotask (a public call, a timer callback, an I/O completion) together *)
(* with the microtask continuations it triggers.                           *)
(***************************************************************************)
EXTENDS Integers, Sequences, FiniteSets, TLC

VARIABLES
    \* ---- PolymarketFeed fields (market_feed.ts:11-19)
    pollTimer,          \* handle of the last timer set by schedulePoll, or NoTimer
    inFlight,
    isRunning,
    consecutiveErrors,
    currentBackoffMs,
    baseIntervalMs,     \* env.POLY_SNAPSHOT_INTERVAL_MS, fixed at construction
    \* ---- the runtime around PolymarketFeed
    pollTimers,         \* timers set by setTimeout and not yet fired or cleared
    fetches,            \* getOrderbook calls that have not completed
    polyEvent,          \* what the last PolymarketFeed step logged / did
    lastPoll,           \* history: what getOrderbook yielded to the latest poll() and
                        \* consecutiveErrors as it was before that; NoPoll while it awaits
    \* ---- BinanceSpotFeed fields (binance_ws.ts:9-13)
    ws,
    reconnectAttempt,
    reconnectTimer,
    snapshotTimer,
    isShuttingDown,
    \* ---- the runtime around BinanceSpotFeed
    sockets,            \* WebSocket objects whose close event is still to come
    reconnectTimers,    \* pending setTimeout timers of scheduleReconnect
    intervals,          \* active setInterval timers of startSnapshotTimer
    spotEvent,          \* what the last BinanceSpotFeed step logged / did
    scheduledSinceOpen, \* history: reconnects scheduled since the last onopen
    startedSinceStop,   \* history: start() was called and stop() was not called after it
    stoppedBefore,      \* history: stop() has been called at least once
    spotRaised,         \* whether the last call or callback raised to its caller
    openPhase,          \* history: "unopened" until an onopen has run, "opened" after an
                        \* onopen until a reconnect is scheduled, then "rescheduled"
    \* ---- BinanceSpotFeed fields (binance_ws.ts:16-22) and settings
    priceBuffer,        \* symbol -> the ticks of its window, oldest first
    latestPrice,        \* symbol -> price of its last tick, or NoPrice
    lastSampleTime,     \* symbol -> local time of its last admitted tick; 0 when absent
    sampleMs,           \* env.SPOT_BUFFER_SAMPLE_MS
    returnWindowMs,     \* env.SPOT_RETURN_WINDOW_MS
    \* ---- the runtime around the message handler
    tickClock,          \* the last value Date.now() returned to handleMessage
    msgCount,           \* history: number of messages handled
    admittedCount,      \* history: symbol -> number of its ticks admitted to the window
    tickEvent,          \* what the last handleMessage call was given and did
    \* ---- LatencySignalEngine fields (latency_signal.ts:9-11)
    polySnapshots,
    lastSignalTime,
    cooldownMs,         \* env.ARB_COOLDOWN_MS, fixed when the configuration is loaded
    \* ---- the runtime around LatencySignalEngine
    now,                \* the last value Date.now() returned
    ticks,              \* number of times the clock has advanced
    engineCall,         \* the last call made on the engine and its arguments
    engineOut,          \* the events (discards, signals) that call produced
    lastEmitAt,         \* history: time of the last signal emitted, or NoSignal
    movesSeen,          \* history: processSpotMove has been called since construction
    lastEmitSymbol      \* history: spot symbol of the last signal emitted, or ""

polyVars == <<pollTimer, inFlight, isRunning, consecutiveErrors, currentBackoffMs,
              baseIntervalMs, pollTimers, fetches, polyEvent, lastPoll>>
spotVars == <<ws, reconnectAttempt, reconnectTimer, snapshotTimer, isShuttingDown,
              sockets, reconnectTimers, intervals, spotEvent, scheduledSinceOpen,
              startedSinceStop, stoppedBefore, openPhase, spotRaised>>
engineVars == <<polySnapshots, lastSignalTime, cooldownMs, now, ticks, engineCall, engineOut,
                lastEmitAt, movesSeen, lastEmitSymbol>>
tickVars == <<priceBuffer, latestPrice, lastSampleTime, sampleMs, returnWindowMs,
              tickClock, msgCount, admittedCount, tickEvent>>
vars == <<polyVars, spotVars, tickVars, engineVars>>

\* ------------------------------------------------------------------ bounds
\* Most timer chains (pending poll timers plus awaiting callbacks) start() may build up.
MaxChains == 2
\* Most consecutive poll errors followed.
MaxErrors == 6

\* ----------------------------------------------------------------- helpers
Min(a, b) == IF a < b THEN a ELSE b

RECURSIVE Pow2(_)
Pow2(n) == IF n <= 0 THEN 1 ELSE 2 * Pow2(n - 1)

\* The value null of a timer field.
NoTimer == 0

\* A handle no pending timer has and the field does not hold: a new Timeout object.
FreshTimer(pending, held) ==
    CHOOSE i \in 1..(Cardinality(pending) + 2) :
        /\ i # held
        /\ \A t \in pending : t.id # i
        /\ \A j \in 1..(i - 1) : j = held \/ \E t \in pending : t.id = j

\* =========================================================================
\*  PolymarketFeed
\* =========================================================================
maxBackoffMs == 30000

\* The base intervals the feed is constructed with (env.POLY_SNAPSHOT_INTERVAL_MS is
\* any positive integer; 5000 is the default).
BaseIntervals == {1000, 5000, 40000}

\* ---- parseFloat over the price and size texts the orderbooks below use.
\* A number is [k |-> "fin", v |-> hundredths], [k |-> "nan", v |-> 0], or
\* [k |-> "inf", v |-> sign] for Infinity (sign 1) and -Infinity (sign -1).
NaN == [k |-> "nan", v |-> 0]
Fin(v) == [k |-> "fin", v |-> v]
Inf(sign) == [k |-> "inf", v |-> sign]

\* a - b and a + b of IEEE 754 doubles, for the three kinds of number above.
Sub(a, b) ==
    IF a.k = "nan" \/ b.k = "nan" THEN NaN
    ELSE IF a.k = "fin" /\ b.k = "fin" THEN Fin(a.v - b.v)
    ELSE IF a.k = "inf" /\ b.k = "inf" THEN (IF a.v = b.v THEN NaN ELSE a)
    ELSE IF a.k = "inf" THEN a
    ELSE Inf(0 - b.v)

Add(a, b) ==
    IF a.k = "nan" \/ b.k = "nan" THEN NaN
    ELSE IF a.k = "fin" /\ b.k = "fin" THEN Fin(a.v + b.v)
    ELSE IF a.k = "inf" /\ b.k = "inf" THEN (IF a.v = b.v THEN a ELSE NaN)
    ELSE IF a.k = "inf" THEN a
    ELSE b

\* x < 0 and x <= 0: comparisons with NaN are false.
LessThanZero(x) == (x.k = "fin" /\ x.v < 0) \/ (x.k = "inf" /\ x.v < 0)
AtMostZero(x) == (x.k = "fin" /\ x.v <= 0) \/ (x.k = "inf" /\ x.v < 0)

parseFloat(text) ==
    CASE text = "0.39" -> Fin(39)
      [] text = "0.40" -> Fin(40)
      [] text = "0.41" -> Fin(41)
      [] text = "0.60" -> Fin(60)
      [] text = "0.62" -> Fin(62)
      [] text = "0"    -> Fin(0)
      [] text = "-0.10" -> Fin(-10)
      [] text = "2"    -> Fin(200)
      [] text = "3"    -> Fin(300)
      [] text = "4"    -> Fin(400)
      [] text = "5"    -> Fin(500)
      [] text = "99"   -> Fin(9900)
      [] text = "102"  -> Fin(10200)
      [] text = "100"  -> Fin(10000)
      [] text = "101"  -> Fin(10100)
      [] text = "110"  -> Fin(11000)
      [] text = "Infinity" -> Inf(1)
      [] text = "-Infinity" -> Inf(-1)
      [] text = "abc"  -> NaN
      [] text = ""     -> NaN
      [] OTHER         -> NaN

isNaN(x) == x.k = "nan"

\* a - b < 0 as the sort comparator sees it: a NaN difference counts as 0.
DiffNegative(a, b) == LessThanZero(Sub(a, b))

Level(p, s) == [price |-> p, size |-> s]

\* comparator (a, b) => priceB - priceA : a goes first when priceB - priceA < 0
BidBefore(a, b) == DiffNegative(parseFloat(b.price), parseFloat(a.price))
\* comparator (a, b) => priceA - priceB
AskBefore(a, b) == DiffNegative(parseFloat(a.price), parseFloat(b.price))

\* comparator(x, y) < 0 for the comparator of the side sorted (bids: desc).
OrderNegative(x, y, desc) == IF desc THEN BidBefore(x, y) ELSE AskBefore(x, y)

\* Array.prototype.sort as Node runs it on an array of fewer than 32 elements: the
\* longest run at the head of the array is found (and reversed when it descends), then
\* each later element is put in by binary insertion.  Positions left, right and mid
\* count from 0 as in the engine.
RECURSIVE InsertionPoint(_, _, _, _, _)
InsertionPoint(sorted, pivot, desc, left, right) ==
    IF left >= right THEN left
    ELSE LET mid == left + ((right - left) \div 2)
         IN  IF OrderNegative(pivot, sorted[mid + 1], desc)
             THEN InsertionPoint(sorted, pivot, desc, left, mid)
             ELSE InsertionPoint(sorted, pivot, desc, mid + 1, right)

\* One step of the binary insertion: x is put into the sorted prefix.
InsertSorted(sorted, x, desc) ==
    LET left == InsertionPoint(sorted, x, desc, 0, Len(sorted))
    IN  SubSeq(sorted, 1, left) \o <<x>> \o SubSeq(sorted, left + 1, Len(sorted))

\* The length of the run at the head of levels; idx is the element compared next with
\* the one before it.
RECURSIVE RunLength(_, _, _, _)
RunLength(levels, desc, isDescending, idx) ==
    IF idx > Len(levels) THEN Len(levels)
    ELSE IF isDescending # OrderNegative(levels[idx], levels[idx - 1], desc) THEN idx - 1
    ELSE RunLength(levels, desc, isDescending, idx + 1)

Reverse(s) == [i \in 1..Len(s) |-> s[Len(s) + 1 - i]]

\* The run at the head of an array of two elements or more, reversed when it descends.
CountAndMakeRun(levels, desc) ==
    LET isDescending == OrderNegative(levels[2], levels[1], desc)
        runLength == RunLength(levels, desc, isDescending, 3)
    IN  [runLength |-> runLength,
         array |-> IF isDescending
                   THEN Reverse(SubSeq(levels, 1, runLength))
                            \o SubSeq(levels, runLength + 1, Len(levels))
                   ELSE levels]

\* The elements from position start on are inserted one after the other.
RECURSIVE BinaryInsertionSort(_, _, _)
BinaryInsertionSort(array, start, desc) ==
    IF start > Len(array) THEN array
    ELSE BinaryInsertionSort(
            InsertSorted(SubSeq(array, 1, start - 1), array[start], desc)
                \o SubSeq(array, start + 1, Len(array)),
            start + 1, desc)

SortLevels(levels, desc) ==
    IF Len(levels) < 2 THEN levels
    ELSE LET run == CountAndMakeRun(levels, desc)
         IN  BinaryInsertionSort(run.array, run.runLength + 1, desc)

sortBidsDesc(bids) == SortLevels(bids, TRUE)
sortAsksAsc(asks) == SortLevels(asks, FALSE)

\* env.POLY_DEPTH_LEVELS of the runs modelled (any positive integer; default 10).
POLY_DEPTH_LEVELS == 2

RECURSIVE SumSizes(_, _)
SumSizes(levels, n) ==
    IF n = 0 THEN Fin(0)
    ELSE LET size == parseFloat(levels[n].size)
         IN  IF isNaN(size) THEN SumSizes(levels, n - 1)
             ELSE Add(SumSizes(levels, n - 1), size)

\* calculateDepth summing every level of both sides.
calculateDepth_AllLevels(sortedBids, sortedAsks) ==
    Add(SumSizes(sortedBids, Len(sortedBids)), SumSizes(sortedAsks, Len(sortedAsks)))

calculateDepth(sortedBids, sortedAsks) ==
    LET afterBids == SumSizes(sortedBids, Min(POLY_DEPTH_LEVELS, Len(sortedBids)))
        asksDepth == SumSizes(sortedAsks, Min(POLY_DEPTH_LEVELS, Len(sortedAsks)))
    IN  Add(afterBids, asksDepth)

\* The result null of normalizeOrderbook and of getOrderbook.
Null == [kind |-> "null"]

\* ((bestAsk - bestBid) / midPrice) * 10000 as the exact ratio num / den, the mid price
\* being (bestBid + bestAsk) / 2; NaN as soon as a best price is infinite (the mid price
\* is then infinite and the quotient inf / inf, or the difference is inf - inf).
SpreadBps(bestBid, bestAsk) ==
    IF bestBid.k = "fin" /\ bestAsk.k = "fin"
    THEN [k |-> "ratio", num |-> (bestAsk.v - bestBid.v) * 20000,
          den |-> bestBid.v + bestAsk.v]
    ELSE NaN

\* Prices are numbers in hundredths; midPrice2 is twice the mid price
\* (bestBid + bestAsk), so that the halves of (bestBid + bestAsk) / 2 are kept.
normalizeOrderbook(orderbook) ==
    IF Len(orderbook.bids) = 0 \/ Len(orderbook.asks) = 0 THEN Null
    ELSE LET sortedBids == sortBidsDesc(orderbook.bids)
             sortedAsks == sortAsksAsc(orderbook.asks)
             bestBid == parseFloat(sortedBids[1].price)
             bestAsk == parseFloat(sortedAsks[1].price)
         IN  IF isNaN(bestBid) \/ isNaN(bestAsk) \/ AtMostZero(bestBid) \/ AtMostZero(bestAsk)
             THEN Null
             ELSE [kind |-> "marketData",
                   bestBid |-> bestBid,
                   bestAsk |-> bestAsk,
                   midPrice2 |-> Add(bestBid, bestAsk),
                   spreadBps |-> SpreadBps(bestBid, bestAsk),
                   depthTopN |-> calculateDepth(sortedBids, sortedAsks)]

\* The orderbooks getOrderbook returns in the runs modelled.
Books ==
    { [kind |-> "book", bids |-> <<Level("0.40", "2")>>, asks |-> <<Level("0.60", "3")>>],
      [kind |-> "book", bids |-> <<Level("0.39", "5"), Level("0.41", "3")>>,
                        asks |-> <<Level("0.62", "2"), Level("0.60", "2")>>],
      [kind |-> "book", bids |-> <<>>, asks |-> <<Level("0.60", "3")>>],
      [kind |-> "book", bids |-> <<Level("abc", "2")>>, asks |-> <<Level("0.60", "3")>>],
      [kind |-> "book", bids |-> <<Level("0.40", "2")>>, asks |-> <<Level("0", "3")>>],
      [kind |-> "book", bids |-> <<Level("Infinity", "2")>>, asks |-> <<Level("0.60", "3")>>],
      [kind |-> "book", bids |-> <<Level("99", "5"), Level("101", "3")>>,
                        asks |-> <<Level("102", "4"), Level("100", "2")>>],
      [kind |-> "book", bids |-> <<Level("0.39", "5"), Level("0.41", "3"), Level("0.40", "2")>>,
                        asks |-> <<Level("0.60", "3")>>],
      [kind |-> "book", bids |-> <<Level("0.40", "2"), Level("abc", "3"), Level("0.41", "4")>>,
                        asks |-> <<Level("0.60", "3")>>] }

\* What awaiting client.getOrderbook(tokenId) can yield: an orderbook, null, or a throw.
FetchResults == Books \cup {Null, [kind |-> "throw"]}

\* delay of schedulePoll, with the backoff ignored.
PollDelay_AlwaysBase(backoff, base) == base

\* delay of schedulePoll
PollDelay(backoff, base) == IF backoff > 0 THEN backoff ELSE base

\* schedulePoll(): the timer field and the pending timers it leaves.
schedulePoll(running, backoff, base, pending, held) ==
    IF ~running
    THEN [pollTimer |-> held, pollTimers |-> pending]
    ELSE LET id == FreshTimer(pending, held)
         IN  [pollTimer |-> id,
              pollTimers |-> pending \cup {[id |-> id, delay |-> PollDelay(backoff, base)]}]

\* The success branch of poll() with the backoff left as it was.
onPollSuccess_KeepsBackoff(errors, backoff) ==
    [consecutiveErrors |-> 0, currentBackoffMs |-> backoff]

\* The success branch of poll(): the counters it leaves.
onPollSuccess(errors, backoff) ==
    [consecutiveErrors |-> 0, currentBackoffMs |-> 0]

\* handlePollError with the exponent off by one (consecutiveErrors instead of
\* consecutiveErrors - 1).
handlePollError_ExponentOffByOne(errors, base) ==
    [consecutiveErrors |-> errors + 1,
     currentBackoffMs |-> Min(base * Pow2(errors + 1), maxBackoffMs)]

\* handlePollError(): the counters it leaves, from the error count before it.
handlePollError(errors, base) ==
    [consecutiveErrors |-> errors + 1,
     currentBackoffMs |-> Min(base * Pow2((errors + 1) - 1), maxBackoffMs)]

\* lastPoll before the first poll and while a poll awaits its fetch.
NoPoll == [result |-> [kind |-> "none"], errorsBefore |-> 0, data |-> Null]

PolyInit ==
    /\ pollTimer = NoTimer
    /\ inFlight = FALSE
    /\ isRunning = FALSE
    /\ consecutiveErrors = 0
    /\ currentBackoffMs = 0
    /\ baseIntervalMs \in BaseIntervals
    /\ pollTimers = {}
    /\ fetches = 0
    /\ polyEvent = "constructed"
    /\ lastPoll = NoPoll

\* start() without the test of isRunning.
PolyStart_NoGuard ==
    /\ Cardinality(pollTimers) + fetches < MaxChains
    /\ isRunning' = TRUE
    /\ consecutiveErrors' = 0
    /\ currentBackoffMs' = 0
    /\ LET s == schedulePoll(isRunning', currentBackoffMs', baseIntervalMs,
                             pollTimers, pollTimer)
       IN  /\ pollTimer' = s.pollTimer
           /\ pollTimers' = s.pollTimers
    /\ polyEvent' = "poly.feed.started"
    /\ UNCHANGED <<inFlight, baseIntervalMs, fetches, lastPoll>>
    /\ UNCHANGED <<spotVars, tickVars, engineVars>>

\* start() leaving the error counter and the backoff as stop() left them.
PolyStart_KeepsBackoff ==
    /\ IF isRunning
       THEN /\ polyEvent' = "poly.feed.already_running"
            /\ UNCHANGED <<pollTimer, inFlight, isRunning, consecutiveErrors,
                           currentBackoffMs, baseIntervalMs, pollTimers, fetches, lastPoll>>
       ELSE /\ Cardinality(pollTimers) + fetches < MaxChains
            /\ isRunning' = TRUE
            /\ LET s == schedulePoll(isRunning', currentBackoffMs, baseIntervalMs,
                                     pollTimers, pollTimer)
               IN  /\ pollTimer' = s.pollTimer
                   /\ pollTimers' = s.pollTimers
            /\ polyEvent' = "poly.feed.started"
            /\ UNCHANGED <<inFlight, baseIntervalMs, fetches, lastPoll,
                           consecutiveErrors, currentBackoffMs>>
    /\ UNCHANGED <<spotVars, tickVars, engineVars>>

\* start()
PolyStart ==
    /\ IF isRunning
       THEN /\ polyEvent' = "poly.feed.already_running"
            /\ UNCHANGED <<pollTimer, inFlight, isRunning, consecutiveErrors,
                           currentBackoffMs, baseIntervalMs, pollTimers, fetches, lastPoll>>
       ELSE /\ Cardinality(pollTimers) + fetches < MaxChains
            /\ isRunning' = TRUE
            /\ consecutiveErrors' = 0
            /\ currentBackoffMs' = 0
            /\ LET s == schedulePoll(isRunning', currentBackoffMs', baseIntervalMs,
                                     pollTimers, pollTimer)
               IN  /\ pollTimer' = s.pollTimer
                   /\ pollTimers' = s.pollTimers
            /\ polyEvent' = "poly.feed.started"
            /\ UNCHANGED <<inFlight, baseIntervalMs, fetches, lastPoll>>
    /\ UNCHANGED <<spotVars, tickVars, engineVars>>

\* stop()
PolyStop ==
    /\ IF pollTimer # NoTimer
       THEN /\ pollTimers' = {t \in pollTimers : t.id # pollTimer}
            /\ pollTimer' = NoTimer
       ELSE UNCHANGED <<pollTimers, pollTimer>>
    /\ isRunning' = FALSE
    /\ polyEvent' = "poly.feed.stopped"
    /\ UNCHANGED <<inFlight, consecutiveErrors, currentBackoffMs, baseIntervalMs, fetches,
                   lastPoll>>
    /\ UNCHANGED <<spotVars, tickVars, engineVars>>

\* The timer callback with the in-flight guard of poll() left out.
PollTimerFire_NoGuard(t) ==
    /\ t \in pollTimers
    /\ inFlight' = TRUE
    /\ fetches' = fetches + 1
    /\ polyEvent' = "poll.fetch"
    /\ pollTimers' = pollTimers \ {t}
    /\ UNCHANGED pollTimer
    /\ lastPoll' = NoPoll
    /\ UNCHANGED <<isRunning, consecutiveErrors, currentBackoffMs, baseIntervalMs>>
    /\ UNCHANGED <<spotVars, tickVars, engineVars>>

\* The timer callback up to its first suspension: poll() either returns at the in-flight
\* guard, and schedulePoll() follows at once, or sets inFlight and awaits getOrderbook.
PollTimerFire(t) ==
    /\ t \in pollTimers
    /\ IF inFlight
       THEN /\ polyEvent' = "poly.poll.skipped"
            /\ LET s == schedulePoll(isRunning, currentBackoffMs, baseIntervalMs,
                                     pollTimers \ {t}, pollTimer)
               IN  /\ pollTimer' = s.pollTimer
                   /\ pollTimers' = s.pollTimers
            /\ UNCHANGED <<inFlight, fetches>>
       ELSE /\ inFlight' = TRUE
            /\ fetches' = fetches + 1
            /\ polyEvent' = "poll.fetch"
            /\ pollTimers' = pollTimers \ {t}
            /\ UNCHANGED pollTimer
    /\ lastPoll' = IF inFlight THEN lastPoll ELSE NoPoll
    /\ UNCHANGED <<isRunning, consecutiveErrors, currentBackoffMs, baseIntervalMs>>
    /\ UNCHANGED <<spotVars, tickVars, engineVars>>

\* Whether a fetch result takes the success branch of poll().
PollSucceeds(res) ==
    /\ res.kind = "book"
    /\ normalizeOrderbook(res) # Null

\* getOrderbook completes with res: the rest of poll() (try, catch, finally) and the
\* schedulePoll() that follows it in the timer callback.
FetchComplete(res) ==
    /\ fetches > 0
    /\ fetches' = fetches - 1
    /\ inFlight' = FALSE
    /\ lastPoll' = [result |-> res, errorsBefore |-> consecutiveErrors,
                    data |-> IF res.kind = "book" THEN normalizeOrderbook(res) ELSE Null]
    /\ IF PollSucceeds(res)
       THEN /\ LET r == onPollSuccess(consecutiveErrors, currentBackoffMs)
               IN  /\ consecutiveErrors' = r.consecutiveErrors
                   /\ currentBackoffMs' = r.currentBackoffMs
            /\ polyEvent' = "poly.snapshot"
       ELSE /\ consecutiveErrors < MaxErrors
            /\ LET e == handlePollError(consecutiveErrors, baseIntervalMs)
               IN  /\ consecutiveErrors' = e.consecutiveErrors
                   /\ currentBackoffMs' = e.currentBackoffMs
            /\ polyEvent' = "poly.poll.error"
    /\ LET s == schedulePoll(isRunning, currentBackoffMs', baseIntervalMs,
                             pollTimers, pollTimer)
       IN  /\ pollTimer' = s.pollTimer
           /\ pollTimers' = s.pollTimers
    /\ UNCHANGED <<isRunning, baseIntervalMs>>
    /\ UNCHANGED <<spotVars, tickVars, engineVars>>

PolyNext ==
    \/ PolyStart
    \/ PolyStop
    \/ \E t \in pollTimers : PollTimerFire(t)
    \/ \E res \in FetchResults : FetchComplete(res)


\* =========================================================================
\*  BinanceSpotFeed: the connection life cycle
\* =========================================================================
\* Most connection chains (live sockets plus pending reconnect timers) and most report
\* intervals start() may build up.
MaxSpotChains == 2
\* Most reconnect-timer callbacks followed without a successful open in between.
MaxAttempt == 6

\* The value null of the ws field.
NoSocket == 0

\* const delays = [1000, 2000, 5000, 10000, 30000]
delays == <<1000, 2000, 5000, 10000, 30000>>

\* delays[Math.min(attempt, delays.length - 1)], on the 0-based array
ReconnectDelay(attempt) == delays[Min(attempt, Len(delays) - 1) + 1]

\* scheduleReconnect(): the timer field and the pending timers it leaves.
scheduleReconnect(attempt, pending, held) ==
    LET id == FreshTimer(pending, held)
    IN  [reconnectTimer |-> id,
         reconnectTimers |-> pending \cup {[id |-> id, delay |-> ReconnectDelay(attempt)]}]

\* The onclose handler's test for scheduling a reconnect.
ReconnectOnClose(shuttingDown) == ~shuttingDown

\* The counter after the reconnect-timer callback's reconnectAttempt++.
AttemptAfterFire(attempt) == attempt + 1

\* The counter after the onopen handler.
AttemptAfterOpen(attempt) == 0

\* openPhase after a step that did or did not schedule a reconnect.
PhaseAfter(phase, scheduled) ==
    IF scheduled /\ phase = "opened" THEN "rescheduled" ELSE phase

\* connect(): `throws` says whether new WebSocket(url) throws synchronously.  What it
\* leaves in ws, the sockets, the timer field and the pending timers; whether its catch
\* block ran (caught) and whether an exception leaves connect() (raised).
connect(throws, shuttingDown, attempt, socks, heldWs, pending, heldTimer) ==
    IF throws
    THEN IF ~shuttingDown
         THEN LET r == scheduleReconnect(attempt, pending, heldTimer)
              IN  [ws |-> heldWs, sockets |-> socks,
                   reconnectTimer |-> r.reconnectTimer,
                   reconnectTimers |-> r.reconnectTimers,
                   caught |-> TRUE, raised |-> FALSE]
         ELSE [ws |-> heldWs, sockets |-> socks,
               reconnectTimer |-> heldTimer, reconnectTimers |-> pending,
               caught |-> TRUE, raised |-> FALSE]
    ELSE LET id == FreshTimer(socks, heldWs)
         IN  [ws |-> id,
              sockets |-> socks \cup {[id |-> id, state |-> "connecting"]},
              reconnectTimer |-> heldTimer, reconnectTimers |-> pending,
              caught |-> FALSE, raised |-> FALSE]

SpotEvent(type, was, scheduled, delay) ==
    [type |-> type, was |-> was, scheduled |-> scheduled, delay |-> delay]

SpotInit ==
    /\ ws = NoSocket
    /\ reconnectAttempt = 0
    /\ reconnectTimer = NoTimer
    /\ snapshotTimer = NoTimer
    /\ isShuttingDown = FALSE
    /\ sockets = {}
    /\ reconnectTimers = {}
    /\ intervals = {}
    /\ spotEvent = SpotEvent("constructed", "", FALSE, 0)
    /\ scheduledSinceOpen = 0
    /\ startedSinceStop = FALSE
    /\ stoppedBefore = FALSE
    /\ openPhase = "unopened"
    /\ spotRaised = FALSE

\* start(): connect(), then startSnapshotTimer()
SpotStart(throws) ==
    /\ Cardinality(sockets) + Cardinality(reconnectTimers) < MaxSpotChains
    /\ Cardinality(intervals) < MaxSpotChains
    /\ LET c == connect(throws, isShuttingDown, reconnectAttempt, sockets, ws,
                        reconnectTimers, reconnectTimer)
           i == FreshTimer({[id |-> x] : x \in intervals}, snapshotTimer)
       IN  /\ ws' = c.ws
           /\ sockets' = c.sockets
           /\ reconnectTimer' = c.reconnectTimer
           /\ reconnectTimers' = c.reconnectTimers
           /\ snapshotTimer' = i
           /\ intervals' = intervals \cup {i}
           /\ spotEvent' = SpotEvent("start",
                                     IF c.caught THEN "spot.ws.connection_failed" ELSE "",
                                     c.reconnectTimers # reconnectTimers,
                                     IF c.reconnectTimers # reconnectTimers
                                     THEN ReconnectDelay(reconnectAttempt) ELSE 0)
           /\ spotRaised' = c.raised
    /\ startedSinceStop' = TRUE
    /\ openPhase' = PhaseAfter(openPhase, spotEvent'.scheduled)
    /\ scheduledSinceOpen' = scheduledSinceOpen + (IF spotEvent'.scheduled THEN 1 ELSE 0)
    /\ UNCHANGED <<reconnectAttempt, isShuttingDown, stoppedBefore>>
    /\ UNCHANGED <<polyVars, tickVars, engineVars>>

\* stop()
SpotStop ==
    /\ isShuttingDown' = TRUE
    /\ IF reconnectTimer # NoTimer
       THEN /\ reconnectTimers' = {t \in reconnectTimers : t.id # reconnectTimer}
            /\ reconnectTimer' = NoTimer
       ELSE UNCHANGED <<reconnectTimers, reconnectTimer>>
    /\ IF snapshotTimer # NoTimer
       THEN /\ intervals' = intervals \ {snapshotTimer}
            /\ snapshotTimer' = NoTimer
       ELSE UNCHANGED <<intervals, snapshotTimer>>
    /\ IF ws # NoSocket
       THEN /\ sockets' = {IF s.id = ws THEN [s EXCEPT !.state = "closing"] ELSE s :
                           s \in sockets}
            /\ ws' = NoSocket
       ELSE UNCHANGED <<sockets, ws>>
    /\ spotEvent' = SpotEvent("stop", "", FALSE, 0)
    /\ spotRaised' = FALSE
    /\ startedSinceStop' = FALSE
    /\ stoppedBefore' = TRUE
    /\ UNCHANGED <<reconnectAttempt, scheduledSinceOpen, openPhase>>
    /\ UNCHANGED <<polyVars, tickVars, engineVars>>

\* ws.onopen of socket s
SocketOpen(s) ==
    /\ s \in sockets
    /\ s.state = "connecting"
    /\ sockets' = (sockets \ {s}) \cup {[s EXCEPT !.state = "open"]}
    /\ reconnectAttempt' = AttemptAfterOpen(reconnectAttempt)
    /\ scheduledSinceOpen' = 0
    /\ openPhase' = "opened"
    /\ spotEvent' = SpotEvent("spot.ws.connected", s.state, FALSE, 0)
    /\ spotRaised' = FALSE
    /\ UNCHANGED <<ws, reconnectTimer, snapshotTimer, isShuttingDown, reconnectTimers,
                   intervals, startedSinceStop, stoppedBefore>>
    /\ UNCHANGED <<polyVars, tickVars, engineVars>>

\* ws.onerror of socket s
SocketError(s) ==
    /\ s \in sockets
    /\ spotEvent' = SpotEvent("spot.ws.error", s.state, FALSE, 0)
    /\ spotRaised' = FALSE
    /\ UNCHANGED <<ws, reconnectAttempt, reconnectTimer, snapshotTimer, isShuttingDown,
                   sockets, reconnectTimers, intervals, scheduledSinceOpen,
                   startedSinceStop, stoppedBefore, openPhase>>
    /\ UNCHANGED <<polyVars, tickVars, engineVars>>

\* ws.onclose of socket s: a failed connect, a disconnect, or the end of a close()
SocketClose(s) ==
    /\ s \in sockets
    /\ sockets' = sockets \ {s}
    /\ IF ReconnectOnClose(isShuttingDown)
       THEN LET r == scheduleReconnect(reconnectAttempt, reconnectTimers, reconnectTimer)
            IN  /\ reconnectTimer' = r.reconnectTimer
                /\ reconnectTimers' = r.reconnectTimers
                /\ spotEvent' = SpotEvent("spot.ws.disconnected", s.state, TRUE,
                                          ReconnectDelay(reconnectAttempt))
       ELSE /\ spotEvent' = SpotEvent("spot.ws.disconnected", s.state, FALSE, 0)
            /\ UNCHANGED <<reconnectTimer, reconnectTimers>>
    /\ openPhase' = PhaseAfter(openPhase, spotEvent'.scheduled)
    /\ scheduledSinceOpen' = scheduledSinceOpen + (IF spotEvent'.scheduled THEN 1 ELSE 0)
    /\ spotRaised' = FALSE
    /\ UNCHANGED <<ws, reconnectAttempt, snapshotTimer, isShuttingDown, intervals,
                   startedSinceStop, stoppedBefore>>
    /\ UNCHANGED <<polyVars, tickVars, engineVars>>

\* The reconnect timer's callback: reconnectAttempt++, connect()
ReconnectTimerFire(t, throws) ==
    /\ t \in reconnectTimers
    /\ reconnectAttempt < MaxAttempt
    /\ reconnectAttempt' = AttemptAfterFire(reconnectAttempt)
    /\ LET c == connect(throws, isShuttingDown, reconnectAttempt', sockets, ws,
                        reconnectTimers \ {t}, reconnectTimer)
       IN  /\ ws' = c.ws
           /\ sockets' = c.sockets
           /\ reconnectTimer' = c.reconnectTimer
           /\ reconnectTimers' = c.reconnectTimers
           /\ spotRaised' = c.raised
           /\ spotEvent' = SpotEvent("connect", "", c.reconnectTimers # reconnectTimers \ {t},
                                     IF c.reconnectTimers # reconnectTimers \ {t}
                                     THEN ReconnectDelay(reconnectAttempt') ELSE 0)
    /\ openPhase' = PhaseAfter(openPhase, spotEvent'.scheduled)
    /\ scheduledSinceOpen' = scheduledSinceOpen + (IF spotEvent'.scheduled THEN 1 ELSE 0)
    /\ UNCHANGED <<snapshotTimer, isShuttingDown, intervals, startedSinceStop,
                   stoppedBefore>>
    /\ UNCHANGED <<polyVars, tickVars, engineVars>>

\* The symbols of env.SPOT_SYMBOLS (default), as the maps are keyed.
Symbols == {"BTCUSDT", "ETHUSDT"}

\* latestPrice has no entry for the symbol.
NoPrice == [k |-> "none", v |-> 0]

\* The report interval's callback: spot.snapshot is logged only when latestPrice has
\* an entry.
SnapshotTimerFire(i) ==
    /\ i \in intervals
    /\ spotEvent' = IF \E s \in Symbols : latestPrice[s] # NoPrice
                    THEN SpotEvent("spot.snapshot", "", FALSE, 0)
                    ELSE SpotEvent("none", "", FALSE, 0)
    /\ spotRaised' = FALSE
    /\ UNCHANGED <<ws, reconnectAttempt, reconnectTimer, snapshotTimer, isShuttingDown,
                   sockets, reconnectTimers, intervals, scheduledSinceOpen,
                   startedSinceStop, stoppedBefore, openPhase>>
    /\ UNCHANGED <<polyVars, tickVars, engineVars>>

SpotNext ==
    \/ \E throws \in BOOLEAN : SpotStart(throws)
    \/ SpotStop
    \/ \E s \in sockets : SocketOpen(s)
    \/ \E s \in sockets : SocketError(s)
    \/ \E s \in sockets : SocketClose(s)
    \/ \E t \in reconnectTimers, throws \in BOOLEAN : ReconnectTimerFire(t, throws)
    \/ \E i \in intervals : SnapshotTimerFire(i)


\* =========================================================================
\*  LatencySignalEngine
\* =========================================================================
\* Most snapshots kept in the history.
MaxHist == 2
\* Most times the clock advances between calls.
MaxTicks == 2

snapshotWindowMs == 60000
ARB_MIN_POLY_DEPTH == 50
ARB_MAX_POLY_SPREAD_BPS == 80
ARB_MIN_EDGE_BPS == 20
\* env.ARB_COOLDOWN_MS of the runs modelled (any positive integer; 15000 is the default)
CooldownChoices == {15000, 90000}

\* Date.now() at construction: an epoch time far above every window (milliseconds).
StartNow == 100000
\* Date.now() at construction when the clock stands shortly after the epoch (a test
\* clock, an unset hardware clock): below every cooldown.
EpochNow == 1000
\* lastEmitAt before any signal
NoSignal == -1

\* Time that passes between two readings of Date.now().
Steps(cooldown) == {0, 1, cooldown - 1, snapshotWindowMs \div 2 + 1}

\* The engine's numbers are those of the feed: Fin(v), NaN or Inf(sign), v in the unit
\* of the field (mid prices in units of 1/10000, the others in whole units).
\* x > c and x < c for a number x and an integer c: a comparison with NaN is false.
GreaterThan(x, c) == (x.k = "fin" /\ x.v > c) \/ (x.k = "inf" /\ x.v > 0)
LessThan(x, c) == (x.k = "fin" /\ x.v < c) \/ (x.k = "inf" /\ x.v < 0)

\* The snapshots passed to updatePolySnapshot, less their timestamp: one at the spread
\* and depth limits, one beyond both, one of another instrument below the depth limit,
\* and the snapshot normalizeOrderbook makes of a book whose best bid is 'Infinity'.
\* The two finite mid prices divide each other's differences times 10000 exactly.
SnapshotKinds ==
    { [tokenId |-> "tokA", midPrice |-> Fin(10000), spreadBps |-> Fin(80),
       depthTopN |-> Fin(50)],
      [tokenId |-> "tokA", midPrice |-> Fin(8000),  spreadBps |-> Fin(100),
       depthTopN |-> Fin(10)],
      [tokenId |-> "tokB", midPrice |-> Fin(8000),  spreadBps |-> Fin(50),
       depthTopN |-> Fin(10)],
      [tokenId |-> "tokA", midPrice |-> Inf(1),     spreadBps |-> NaN,
       depthTopN |-> Fin(100)] }

\* How far behind Date.now() the timestamp of a snapshot passed in is.
Lags == {0, snapshotWindowMs + 1}

\* The arguments of processSpotMove.
Moves ==
    { [symbol |-> "BTCUSDT", price |-> 50000, moveBps |-> Fin(10),    direction |-> "up"],
      [symbol |-> "ETHUSDT", price |-> 3000,  moveBps |-> Fin(-2519), direction |-> "down"],
      [symbol |-> "BTCUSDT", price |-> 50000, moveBps |-> Fin(2520),  direction |-> "up"] }

Abs(x) == IF x < 0 THEN -x ELSE x

\* Math.abs
MathAbs(x) ==
    IF x.k = "fin" THEN Fin(Abs(x.v)) ELSE IF x.k = "inf" THEN Inf(1) ELSE NaN

\* ((latest / oldest) - 1) * 10000 for two positive prices: the quotient of two
\* infinities is NaN, a finite price over an infinite one is 0, an infinite one over a
\* finite one is infinite.
ReturnRatioBps(latest, oldest) ==
    IF latest.k = "nan" \/ oldest.k = "nan" THEN NaN
    ELSE IF latest.k = "fin" /\ oldest.k = "fin"
         THEN Fin(((latest.v - oldest.v) * 10000) \div oldest.v)
    ELSE IF latest.k = "inf" /\ oldest.k = "inf" THEN NaN
    ELSE IF latest.k = "inf" THEN Inf(latest.v)
    ELSE Fin(-10000)

RECURSIVE Filter(_, _)
\* polySnapshots.filter(s => s.timestamp >= cutoff)
Filter(history, cutoff) ==
    IF history = <<>> THEN <<>>
    ELSE IF history[1].timestamp >= cutoff
         THEN <<history[1]>> \o Filter(Tail(history), cutoff)
         ELSE Filter(Tail(history), cutoff)

\* updatePolySnapshot pruning before it appends.
updatePolySnapshot_PruneFirst(history, snapshot, t) ==
    Append(Filter(history, t - snapshotWindowMs), snapshot)

\* updatePolySnapshot(snapshot) at Date.now() = t: the history it leaves
updatePolySnapshot(history, snapshot, t) ==
    Filter(Append(history, snapshot), t - snapshotWindowMs)

\* getLatestPolySnapshot(); Null when the history is empty
getLatestPolySnapshot(history) ==
    IF Len(history) = 0 THEN Null ELSE history[Len(history)]

\* calculatePolyMovement(): ((latest.midPrice / oldest.midPrice) - 1) * 10000
calculatePolyMovement(history) ==
    IF Len(history) < 2 THEN Fin(0)
    ELSE LET oldest == history[1]
             latest == history[Len(history)]
         IN  ReturnRatioBps(latest.midPrice, oldest.midPrice)

Discard(reason) == [type |-> "arb.discard", reason |-> reason]

Signal(t, move, latestPoly, edgeBps) ==
    [type |-> "arb.signal", reason |-> "latency_opportunity",
     timestamp |-> t, spotSymbol |-> move.symbol, spotPrice |-> move.price,
     spotMoveBps |-> move.moveBps, spotDirection |-> move.direction,
     polyTokenId |-> latestPoly.tokenId, polyMidPrice |-> latestPoly.midPrice,
     polySpreadBps |-> latestPoly.spreadBps, polyDepth |-> latestPoly.depthTopN,
     edgeBps |-> edgeBps]

\* The tests of the five gates.
SpreadTooWide(latestPoly) == GreaterThan(latestPoly.spreadBps, ARB_MAX_POLY_SPREAD_BPS)
DepthTooLow(latestPoly) == LessThan(latestPoly.depthTopN, ARB_MIN_POLY_DEPTH)
\* The cooldown test never failing.
InCooldown_Never(t, lastSignal, cooldown) == FALSE
\* The cooldown test with <= for <.
InCooldown_Inclusive(t, lastSignal, cooldown) == t - lastSignal <= cooldown
InCooldown(t, lastSignal, cooldown) == t - lastSignal < cooldown
EdgeOf(history, move) ==
    Sub(MathAbs(move.moveBps), MathAbs(calculatePolyMovement(history)))
EdgeTooSmall(edgeBps) == LessThan(edgeBps, ARB_MIN_EDGE_BPS)

\* processSpotMove with the depth gate ahead of the spread gate.
processSpotMove_DepthFirst(history, lastSignal, cooldown, t, move) ==
    LET latestPoly == getLatestPolySnapshot(history)
    IN  IF latestPoly = Null
        THEN [events |-> <<Discard("no_poly_snapshot")>>, lastSignalTime |-> lastSignal]
        ELSE IF DepthTooLow(latestPoly)
        THEN [events |-> <<Discard("low_depth")>>, lastSignalTime |-> lastSignal]
        ELSE IF SpreadTooWide(latestPoly)
        THEN [events |-> <<Discard("wide_spread")>>, lastSignalTime |-> lastSignal]
        ELSE IF InCooldown(t, lastSignal, cooldown)
        THEN [events |-> <<Discard("cooldown")>>, lastSignalTime |-> lastSignal]
        ELSE IF EdgeTooSmall(EdgeOf(history, move))
        THEN [events |-> <<Discard("insufficient_edge")>>, lastSignalTime |-> lastSignal]
        ELSE [events |-> <<Signal(t, move, latestPoly, EdgeOf(history, move))>>,
              lastSignalTime |-> t]

\* processSpotMove with the return after the spread and depth discards left out: the
\* later gates are still evaluated.
processSpotMove_FallThrough(history, lastSignal, cooldown, t, move) ==
    LET latestPoly == getLatestPolySnapshot(history)
    IN  IF latestPoly = Null
        THEN [events |-> <<Discard("no_poly_snapshot")>>, lastSignalTime |-> lastSignal]
        ELSE LET early ==
                    (IF SpreadTooWide(latestPoly) THEN <<Discard("wide_spread")>> ELSE <<>>)
                    \o (IF DepthTooLow(latestPoly) THEN <<Discard("low_depth")>> ELSE <<>>)
             IN  IF InCooldown(t, lastSignal, cooldown)
                 THEN [events |-> early \o <<Discard("cooldown")>>,
                       lastSignalTime |-> lastSignal]
                 ELSE IF EdgeTooSmall(EdgeOf(history, move))
                 THEN [events |-> early \o <<Discard("insufficient_edge")>>,
                       lastSignalTime |-> lastSignal]
                 ELSE [events |-> early \o
                                  <<Signal(t, move, latestPoly, EdgeOf(history, move))>>,
                       lastSignalTime |-> t]

\* processSpotMove stamping lastSignalTime on an insufficient_edge discard as well.
processSpotMove_StampOnDiscard(history, lastSignal, cooldown, t, move) ==
    LET latestPoly == getLatestPolySnapshot(history)
    IN  IF latestPoly = Null
        THEN [events |-> <<Discard("no_poly_snapshot")>>, lastSignalTime |-> lastSignal]
        ELSE IF SpreadTooWide(latestPoly)
        THEN [events |-> <<Discard("wide_spread")>>, lastSignalTime |-> lastSignal]
        ELSE IF DepthTooLow(latestPoly)
        THEN [events |-> <<Discard("low_depth")>>, lastSignalTime |-> lastSignal]
        ELSE IF InCooldown(t, lastSignal, cooldown)
        THEN [events |-> <<Discard("cooldown")>>, lastSignalTime |-> lastSignal]
        ELSE IF EdgeTooSmall(EdgeOf(history, move))
        THEN [events |-> <<Discard("insufficient_edge")>>, lastSignalTime |-> t]
        ELSE [events |-> <<Signal(t, move, latestPoly, EdgeOf(history, move))>>,
              lastSignalTime |-> t]

\* processSpotMove(symbol, price, moveBps, direction) at Date.now() = t: the events it
\* logs, in order, and the lastSignalTime it leaves.
processSpotMove(history, lastSignal, cooldown, t, move) ==
    LET latestPoly == getLatestPolySnapshot(history)
    IN  IF latestPoly = Null
        THEN [events |-> <<Discard("no_poly_snapshot")>>, lastSignalTime |-> lastSignal]
        ELSE IF SpreadTooWide(latestPoly)
        THEN [events |-> <<Discard("wide_spread")>>, lastSignalTime |-> lastSignal]
        ELSE IF DepthTooLow(latestPoly)
        THEN [events |-> <<Discard("low_depth")>>, lastSignalTime |-> lastSignal]
        ELSE IF InCooldown(t, lastSignal, cooldown)
        THEN [events |-> <<Discard("cooldown")>>, lastSignalTime |-> lastSignal]
        ELSE IF EdgeTooSmall(EdgeOf(history, move))
        THEN [events |-> <<Discard("insufficient_edge")>>, lastSignalTime |-> lastSignal]
        ELSE [events |-> <<Signal(t, move, latestPoly, EdgeOf(history, move))>>,
              lastSignalTime |-> t]

\* The engine constructed when Date.now() = t.
EngineInitAt(t) ==
    /\ polySnapshots = <<>>
    /\ lastSignalTime = 0
    /\ cooldownMs \in CooldownChoices
    /\ now = t
    /\ ticks = 0
    /\ engineCall = [op |-> "constructor"]
    /\ engineOut = <<>>
    /\ lastEmitAt = NoSignal
    /\ movesSeen = FALSE
    /\ lastEmitSymbol = ""

EngineInit == EngineInitAt(StartNow)

\* Date.now() read by a call, dt after the last reading
ReadClock(dt) ==
    /\ dt \in Steps(cooldownMs)
    /\ dt > 0 => ticks < MaxTicks
    /\ now' = now + dt
    /\ ticks' = IF dt > 0 THEN ticks + 1 ELSE ticks

\* updatePolySnapshot(snapshot), the snapshot stamped lag before the call
UpdatePolySnapshot(kind, lag, dt) ==
    /\ ReadClock(dt)
    /\ LET snapshot == [tokenId |-> kind.tokenId, midPrice |-> kind.midPrice,
                        spreadBps |-> kind.spreadBps, depthTopN |-> kind.depthTopN,
                        timestamp |-> now' - lag]
           after == updatePolySnapshot(polySnapshots, snapshot, now')
       IN  /\ Len(after) <= MaxHist
           /\ polySnapshots' = after
           /\ engineCall' = [op |-> "updatePolySnapshot", snapshot |-> snapshot]
    /\ engineOut' = <<>>
    /\ UNCHANGED <<lastSignalTime, cooldownMs, lastEmitAt, movesSeen, lastEmitSymbol>>
    /\ UNCHANGED <<polyVars, spotVars, tickVars>>

\* processSpotMove(symbol, price, moveBps, direction)
ProcessSpotMove(move, dt) ==
    /\ ReadClock(dt)
    /\ LET r == processSpotMove(polySnapshots, lastSignalTime, cooldownMs, now', move)
       IN  /\ engineOut' = r.events
           /\ lastSignalTime' = r.lastSignalTime
           /\ lastEmitAt' = IF \E i \in 1..Len(r.events) : r.events[i].type = "arb.signal"
                            THEN now' ELSE lastEmitAt
           /\ lastEmitSymbol' =
                    IF \E i \in 1..Len(r.events) : r.events[i].type = "arb.signal"
                    THEN move.symbol ELSE lastEmitSymbol
    /\ engineCall' = [op |-> "processSpotMove", move |-> move]
    /\ movesSeen' = TRUE
    /\ UNCHANGED <<polySnapshots, cooldownMs>>
    /\ UNCHANGED <<polyVars, spotVars, tickVars>>

EngineNext ==
    \/ \E kind \in SnapshotKinds, lag \in Lags, dt \in Steps(cooldownMs) :
            UpdatePolySnapshot(kind, lag, dt)
    \/ \E move \in Moves, dt \in Steps(cooldownMs) : ProcessSpotMove(move, dt)

\* =========================================================================
\*  BinanceSpotFeed: messages, the per-symbol window and move detection
\* =========================================================================
\* Most stream messages followed.
MaxMsgs == 3
\* Most ticks followed when one symbol receives a tick every millisecond.
MaxRun == 7

\* env.SPOT_MOVE_THRESHOLD_BPS (default)
SPOT_MOVE_THRESHOLD_BPS == 50
\* env.SPOT_BUFFER_SAMPLE_MS and env.SPOT_RETURN_WINDOW_MS of the runs modelled (any
\* positive integers; the defaults are 250 and 60000).
SampleChoices == {1, 2, 3, 5}
WindowChoices == {5}

\* Every symbol keyed to one and the same map entry.
toUpperCase_OneKey(s) == "BTCUSDT"

\* String.prototype.toUpperCase over the symbols the stream sends.
toUpperCase(s) ==
    CASE s = "btcusdt" -> "BTCUSDT"
      [] s = "ethusdt" -> "ETHUSDT"
      [] OTHER -> s

\* A trade message { data: { s, p, T } }.
Trade(s, p) == [kind |-> "trade", s |-> s, p |-> p]

\* The stream messages of the runs modelled: trades, text that is not JSON, a message
\* whose data has no price p, and a message whose data has a price but no symbol s.
Messages ==
    {Trade(s, p) : s \in {"btcusdt", "ethusdt"}, p \in {"100", "101", "abc"}}
    \cup {[kind |-> "garbage"], [kind |-> "no_price"], [kind |-> "no_symbol"]}

\* Milliseconds between the arrivals of two messages.
TickSteps == {0, 2, 4}

\* No return is computed (the window holds fewer than two ticks).
NoReturn == [kind |-> "none"]

\* The return taken over the current price instead of the past one.
ReturnBps_OverCurrent(currentPrice, pastPrice) ==
    IF currentPrice.k # "fin" \/ pastPrice.k # "fin" THEN NaN
    ELSE [k |-> "ratio", num |-> (currentPrice.v - pastPrice.v) * 10000,
          den |-> currentPrice.v]

\* (current / past - 1) * 10000 as the exact ratio num / den; NaN when a price is NaN.
\* The prices modelled are positive, so den > 0.
ReturnBps(currentPrice, pastPrice) ==
    IF currentPrice.k # "fin" \/ pastPrice.k # "fin" THEN NaN
    ELSE [k |-> "ratio", num |-> (currentPrice.v - pastPrice.v) * 10000, den |-> pastPrice.v]

\* returnBps > 0
ReturnPositive(r) == r.k = "ratio" /\ r.num > 0
\* Math.abs(returnBps) >= bps
ReturnAbsAtLeast(r, bps) == r.k = "ratio" /\ Abs(r.num) >= bps * r.den

calculateReturn(current, past) ==
    LET returnBps == ReturnBps(current.price, past.price)
    IN  [kind |-> "return",
         currentPrice |-> current.price,
         pastPrice |-> past.price,
         returnBps |-> returnBps,
         direction |-> IF ReturnPositive(returnBps) THEN "up" ELSE "down",
         windowMs |-> current.tsLocal - past.tsLocal]

\* The downsample gate with the boundary excluded.
shouldSample_Exclusive(tsLocal, lastSample, sampleInterval) ==
    tsLocal - lastSample > sampleInterval

\* shouldSample of processTick
shouldSample(tsLocal, lastSample, sampleInterval) ==
    tsLocal - lastSample >= sampleInterval

\* The pruning loop of processTick that never shifts.
PruneHead_Never(buffer, cutoff) == buffer

\* while (buffer.length > 0 && buffer[0].tsLocal < cutoff) buffer.shift()
RECURSIVE PruneHead(_, _)
PruneHead(buffer, cutoff) ==
    IF Len(buffer) > 0 /\ buffer[1].tsLocal < cutoff
    THEN PruneHead(Tail(buffer), cutoff)
    ELSE buffer

\* The emission test of processTick without the window test.
moveGate_NoWindowTest(priceReturn, returnWindow) ==
    ReturnAbsAtLeast(priceReturn.returnBps, SPOT_MOVE_THRESHOLD_BPS)

\* The emission test of processTick: windowMs >= returnWindow * 0.8 (the product is
\* exact for the windows modelled) and |returnBps| >= threshold.
moveGate(priceReturn, returnWindow) ==
    /\ priceReturn.windowMs * 10 >= returnWindow * 8
    /\ ReturnAbsAtLeast(priceReturn.returnBps, SPOT_MOVE_THRESHOLD_BPS)

\* processTick with the latest price set only for a tick the downsample gate admits
\* (it then stays the price of the newest tick in the window).
processTick_LatestOnAdmit(buffer, lastSample, tick, sampleInterval, returnWindow) ==
    LET admit == shouldSample(tick.tsLocal, lastSample, sampleInterval)
        after == IF admit
                 THEN PruneHead(Append(buffer, tick), tick.tsLocal - returnWindow)
                 ELSE buffer
        priceReturn == IF Len(after) > 1 THEN calculateReturn(tick, after[1]) ELSE NoReturn
    IN  [latestPrice |-> IF admit THEN tick.price
                         ELSE IF buffer = <<>> THEN NoPrice
                         ELSE buffer[Len(buffer)].price,
         lastSampleTime |-> IF admit THEN tick.tsLocal ELSE lastSample,
         priceBuffer |-> after,
         admitted |-> admit,
         ret |-> priceReturn,
         move |-> priceReturn # NoReturn /\ moveGate(priceReturn, returnWindow)]

\* processTick(tick) on the entries of the tick's symbol: buffer is its window (empty
\* when the map has none) and lastSample its downsample clock (0 when the map has none).
processTick(buffer, lastSample, tick, sampleInterval, returnWindow) ==
    LET admit == shouldSample(tick.tsLocal, lastSample, sampleInterval)
        after == IF admit
                 THEN PruneHead(Append(buffer, tick), tick.tsLocal - returnWindow)
                 ELSE buffer
        priceReturn == IF Len(after) > 1 THEN calculateReturn(tick, after[1]) ELSE NoReturn
    IN  [latestPrice |-> tick.price,
         lastSampleTime |-> IF admit THEN tick.tsLocal ELSE lastSample,
         priceBuffer |-> after,
         admitted |-> admit,
         ret |-> priceReturn,
         move |-> priceReturn # NoReturn /\ moveGate(priceReturn, returnWindow)]

TickInit ==
    /\ priceBuffer = [s \in Symbols |-> <<>>]
    /\ latestPrice = [s \in Symbols |-> NoPrice]
    /\ lastSampleTime = [s \in Symbols |-> 0]
    /\ sampleMs \in SampleChoices
    /\ returnWindowMs \in WindowChoices
    /\ tickClock = StartNow
    /\ msgCount = 0
    /\ admittedCount = [s \in Symbols |-> 0]
    /\ tickEvent = [msg |-> [kind |-> "none"], outcome |-> "constructed", symbol |-> "",
                    admitted |-> FALSE, ret |-> NoReturn, move |-> FALSE]

\* ws.onmessage: handleMessage(data) for a message that arrives dt after the last one,
\* the limit-th message at most.
Receive(msg, dt, limit) ==
    /\ msgCount < limit
    /\ msgCount' = msgCount + 1
    /\ tickClock' = tickClock + dt
    /\ IF msg.kind = "trade"
       THEN LET symbol == toUpperCase(msg.s)
                tick == [price |-> parseFloat(msg.p), tsLocal |-> tickClock']
                r == processTick(priceBuffer[symbol], lastSampleTime[symbol], tick,
                                 sampleMs, returnWindowMs)
            IN  /\ latestPrice' = [latestPrice EXCEPT ![symbol] = r.latestPrice]
                /\ lastSampleTime' = [lastSampleTime EXCEPT ![symbol] = r.lastSampleTime]
                /\ priceBuffer' = [priceBuffer EXCEPT ![symbol] = r.priceBuffer]
                /\ admittedCount' = [admittedCount EXCEPT
                                        ![symbol] = @ + (IF r.admitted THEN 1 ELSE 0)]
                /\ tickEvent' = [msg |-> msg, outcome |-> "tick", symbol |-> symbol,
                                 admitted |-> r.admitted, ret |-> r.ret, move |-> r.move]
       ELSE /\ tickEvent' = [msg |-> msg, outcome |-> "dropped", symbol |-> "",
                             admitted |-> FALSE, ret |-> NoReturn, move |-> FALSE]
            /\ UNCHANGED <<latestPrice, lastSampleTime, priceBuffer, admittedCount>>
    /\ UNCHANGED <<sampleMs, returnWindowMs>>
    /\ UNCHANGED <<polyVars, spotVars, engineVars>>

\* Any message, any time after the last one.
HandleMessage(msg, dt) == Receive(msg, dt, MaxMsgs)

\* The trades of one symbol at the prices of the millisecond runs.
MillisecondTrades == {Trade("btcusdt", p) : p \in {"100", "101", "110"}}

\* One symbol receives a tick every millisecond.
NextMillisecondTick(msg) == Receive(msg, 1, MaxRun)

SpotTickNext == \E msg \in Messages, dt \in TickSteps : HandleMessage(msg, dt)

DownsampleNext == \E msg \in MillisecondTrades : NextMillisecondTick(msg)


\* =========================================================================
\*  Specifications
\* =========================================================================
\* PolymarketFeed alone
\* The message handler's state where it is not exercised.
TickIdleInit == TickInit /\ sampleMs = 2

PolyFeedInit == PolyInit /\ SpotInit /\ EngineInit /\ cooldownMs = 15000 /\ TickIdleInit
PolyFeedSpec == PolyFeedInit /\ [][PolyNext]_vars

\* The event loop runs every timer that is due, and every fetch completes.
PolyFeedFairSpec ==
    /\ PolyFeedSpec
    /\ WF_vars(\E t \in pollTimers : PollTimerFire(t))
    /\ WF_vars(\E res \in FetchResults : FetchComplete(res))

\* BinanceSpotFeed's connection life cycle alone
SpotFeedInit ==
    SpotInit /\ PolyInit /\ baseIntervalMs = 5000 /\ EngineInit /\ cooldownMs = 15000
    /\ TickIdleInit
SpotFeedSpec == SpotFeedInit /\ [][SpotNext]_vars
\* Timers set by setTimeout fire: the event loop runs every due callback.
SpotFeedFairSpec ==
    /\ SpotFeedSpec
    /\ WF_vars(\E t \in reconnectTimers, throws \in BOOLEAN : ReconnectTimerFire(t, throws))

\* LatencySignalEngine alone
EngineOnlyInit ==
    /\ EngineInit /\ cooldownMs = 15000
    /\ PolyInit /\ baseIntervalMs = 5000 /\ SpotInit /\ TickIdleInit
EngineSpec == EngineOnlyInit /\ [][EngineNext]_vars

\* The same, the engine constructed while the clock reads EpochNow
EngineEpochInit ==
    EngineInitAt(EpochNow) /\ PolyInit /\ baseIntervalMs = 5000 /\ SpotInit /\ TickIdleInit
EngineEpochSpec == EngineEpochInit /\ [][EngineNext]_vars

\* BinanceSpotFeed's message handling alone
SpotTickInit ==
    TickInit /\ sampleMs = 2 /\ SpotInit /\ PolyInit /\ baseIntervalMs = 5000
    /\ EngineInit /\ cooldownMs = 15000
SpotTickSpec == SpotTickInit /\ [][SpotTickNext]_vars

\* One symbol of a new feed receives a tick every millisecond.
DownsampleInit ==
    TickInit /\ SpotInit /\ PolyInit /\ baseIntervalMs = 5000 /\ EngineInit /\ cooldownMs = 15000
DownsampleSpec == DownsampleInit /\ [][DownsampleNext]_vars

\* =========================================================================
\*  Properties: PolymarketFeed (PolyFeedSpec)
\* =========================================================================

\* C1: at most one orderbook fetch is outstanding at any time; a fetch is initiated only
\* when none is outstanding (so a fetch that never completes is never followed by a
\* second one), and a poll cycle that is skipped initiates no fetch.
C1_AtMostOneFetch ==
    /\ [](fetches \in {0, 1})
    /\ [][fetches' > fetches => (fetches = 0 /\ fetches' = 1)]_vars
    /\ [][polyEvent' = "poly.poll.skipped" => fetches' = fetches]_vars
    /\ [](polyEvent = "poly.poll.skipped" => fetches = 1)

\* C1 witness: a poll timer fired while a fetch was outstanding and the cycle was skipped.
C1_Witness ==
    /\ polyEvent = "poly.poll.skipped"
    /\ fetches = 1
    /\ inFlight

\* The backoff the claim gives for the n-th consecutive error.
ClaimedBackoff(base, n) ==
    IF base * Pow2(n - 1) < 30000 THEN base * Pow2(n - 1) ELSE 30000

\* C5: after the n-th consecutive poll error currentBackoffMs = min(base * 2^(n-1), 30000)
\* and each poll error raises consecutiveErrors by exactly 1; with base 5000 the errors
\* 1..6 give 5000, 10000, 20000, 30000, 30000, 30000.
C5_BackoffLadder ==
    /\ [](consecutiveErrors >= 1 =>
            currentBackoffMs = ClaimedBackoff(baseIntervalMs, consecutiveErrors))
    /\ []((baseIntervalMs = 5000 /\ consecutiveErrors \in 1..6) =>
            currentBackoffMs =
                <<5000, 10000, 20000, 30000, 30000, 30000>>[consecutiveErrors])
    /\ [][polyEvent' = "poly.poll.error" => consecutiveErrors' = consecutiveErrors + 1]_vars
    /\ [][consecutiveErrors' > consecutiveErrors => polyEvent' = "poly.poll.error"]_vars

\* C5 witness: the sixth consecutive error with base interval 5000 ms.
C5_Witness ==
    /\ polyEvent = "poly.poll.error"
    /\ baseIntervalMs = 5000
    /\ consecutiveErrors = 6
    /\ currentBackoffMs = 30000

\* C7: while the feed is stopped (after stop() and until the next start()) no poll timer
\* is pending and no orderbook fetch is initiated.
C7_StopCancelsPolling ==
    ~isRunning => (pollTimers = {} /\ polyEvent # "poll.fetch")

\* C9: when stop() is called while a fetch is in flight, the completion of that fetch
\* emits no snapshot, leaves consecutiveErrors and currentBackoffMs alone and schedules
\* no poll.
C9_CompletionAfterStopDiscarded ==
    [][(polyEvent = "poly.feed.stopped" /\ fetches = 1 /\ fetches' = 0) =>
            /\ polyEvent' # "poly.snapshot"
            /\ consecutiveErrors' = consecutiveErrors
            /\ currentBackoffMs' = currentBackoffMs
            /\ pollTimers' = pollTimers]_vars

\* =========================================================================
\*  Properties: BinanceSpotFeed (SpotFeedSpec, SpotFeedFairSpec)
\* =========================================================================
\* The ladder of the claim, by the number of failed attempts so far.
ClaimedLadder(k) ==
    IF k <= 4 THEN <<1000, 2000, 5000, 10000, 30000>>[k + 1] ELSE 30000

\* C6: a close while not shutting down schedules exactly one reconnect, with delay
\* ladder[min(attempt, 4)], and leaves attempt alone; the timer's callback raises attempt
\* by one before it connects; so the k-th reconnect scheduled in a row without a
\* successful open in between waits 1 s, 2 s, 5 s, 10 s, 30 s, 30 s, ...; and a scheduled
\* reconnect is followed by a connect attempt unless stop() intervenes.
C6_ReconnectLadder ==
    /\ [][(Cardinality(sockets') < Cardinality(sockets) /\ ~isShuttingDown) =>
            /\ reconnectAttempt' = reconnectAttempt
            /\ reconnectTimers \subseteq reconnectTimers'
            /\ Cardinality(reconnectTimers' \ reconnectTimers) = 1
            /\ \A t \in reconnectTimers' \ reconnectTimers :
                    /\ t.delay = ClaimedLadder(reconnectAttempt)
                    /\ t.id = reconnectTimer']_vars
    /\ [][spotEvent'.type = "connect" => reconnectAttempt' = reconnectAttempt + 1]_vars
    /\ [][spotEvent'.scheduled
            => spotEvent'.delay = ClaimedLadder(scheduledSinceOpen)]_vars
    /\ (spotEvent.type = "spot.ws.disconnected" /\ spotEvent.scheduled
            /\ reconnectAttempt < MaxAttempt)
         ~> (spotEvent.type = "connect" \/ isShuttingDown)

\* C8: once stop() has returned, and until start() is called again, no reconnect timer
\* and no report timer is pending, every transport is closed or closing, and no
\* reconnect is scheduled.
C8_StopCancelsEverything ==
    (stoppedBefore /\ ~startedSinceStop) =>
        /\ reconnectTimers = {}
        /\ intervals = {}
        /\ \A s \in sockets : s.state = "closing"
        /\ ~spotEvent.scheduled

\* C10: after stop() and start() the report timer runs and a disconnect that no stop()
\* caused schedules a reconnect, as after a first start.
C10_RestartWorks ==
    (stoppedBefore /\ startedSinceStop) =>
        /\ snapshotTimer \in intervals
        /\ (spotEvent.type = "spot.ws.disconnected" /\ spotEvent.was # "closing")
                => spotEvent.scheduled

\* =========================================================================
\*  Properties: LatencySignalEngine (EngineSpec)
\* =========================================================================
\* x >= c and x <= c for a number x and an integer c; false for NaN.
AtLeast(x, c) == (x.k = "fin" /\ x.v >= c) \/ (x.k = "inf" /\ x.v > 0)
AtMost(x, c) == (x.k = "fin" /\ x.v <= c) \/ (x.k = "inf" /\ x.v < 0)

GateReasons ==
    <<"no_poly_snapshot", "wide_spread", "low_depth", "cooldown", "insufficient_edge">>

\* Whether gate g would fail for `move` at time t, each gate taken on its own.
GateFails(g, history, lastSignal, cooldown, t, move) ==
    CASE g = 1 -> Len(history) = 0
      [] g = 2 -> /\ Len(history) > 0
                  /\ GreaterThan(history[Len(history)].spreadBps, ARB_MAX_POLY_SPREAD_BPS)
      [] g = 3 -> /\ Len(history) > 0
                  /\ LessThan(history[Len(history)].depthTopN, ARB_MIN_POLY_DEPTH)
      [] g = 4 -> t - lastSignal < cooldown
      [] g = 5 -> LessThan(EdgeOf(history, move), ARB_MIN_EDGE_BPS)

\* A discard leaves the engine's state alone, so the gates can be read off the state
\* that follows the call.
FailsNow(g) ==
    GateFails(g, polySnapshots, lastSignalTime, cooldownMs, now, engineCall.move)

MoveDiscarded ==
    /\ engineCall.op = "processSpotMove"
    /\ Len(engineOut) >= 1
    /\ engineOut[1].type = "arb.discard"

\* C2: the discard reason is that of the first failing gate in the order no_poly_snapshot,
\* wide_spread, low_depth, cooldown, insufficient_edge; with an empty history it is
\* always no_poly_snapshot.
C2_GateOrder ==
    /\ MoveDiscarded =>
            \E g \in 1..5 :
                /\ FailsNow(g)
                /\ \A h \in 1..(g - 1) : ~FailsNow(h)
                /\ engineOut[1].reason = GateReasons[g]
    /\ (engineCall.op = "processSpotMove" /\ Len(polySnapshots) = 0) =>
            engineOut = <<Discard("no_poly_snapshot")>>

\* C2 witness: a move discarded as no_poly_snapshot on an empty history while the
\* cooldown and the edge gate would have failed too.
C2_Witness ==
    /\ MoveDiscarded
    /\ Len(polySnapshots) = 0
    /\ engineOut[1].reason = "no_poly_snapshot"
    /\ FailsNow(4)
    /\ FailsNow(5)

\* C3: a processSpotMove call yields exactly one event: one discard with one reason, or
\* one signal.
C3_ExactlyOneOutcome ==
    engineCall.op = "processSpotMove" =>
        /\ Len(engineOut) = 1
        /\ \/ /\ engineOut[1].type = "arb.discard"
              /\ \E g \in 1..5 : engineOut[1].reason = GateReasons[g]
           \/ /\ engineOut[1].type = "arb.signal"
              /\ engineOut[1].reason = "latency_opportunity"

\* C3 witness: a move judged against a snapshot that fails the spread and the depth gate
\* at once, and still discarded with one reason.
C3_Witness ==
    /\ MoveDiscarded
    /\ FailsNow(2)
    /\ FailsNow(3)
    /\ Len(engineOut) = 1

\* The latest snapshot passes the snapshot, spread and depth gates.
PassesFirstThree(history) ==
    /\ Len(history) > 0
    /\ ~GreaterThan(history[Len(history)].spreadBps, ARB_MAX_POLY_SPREAD_BPS)
    /\ ~LessThan(history[Len(history)].depthTopN, ARB_MIN_POLY_DEPTH)

\* C4: after a signal at time t, a move processed at a time in [t, t + cooldownMs - 1] that
\* passes the first three gates is discarded as cooldown, and a move processed at
\* t + cooldownMs or later is not: it is judged by the edge gate.
C4_Cooldown ==
    [][(engineCall'.op = "processSpotMove" /\ lastEmitAt # NoSignal
            /\ PassesFirstThree(polySnapshots)) =>
            /\ (now' >= lastEmitAt /\ now' <= lastEmitAt + cooldownMs - 1)
                    => engineOut' = <<Discard("cooldown")>>
            /\ now' >= lastEmitAt + cooldownMs
                    => /\ Len(engineOut') = 1
                       /\ engineOut'[1].reason \in {"insufficient_edge",
                                                    "latency_opportunity"}]_vars

\* C4 witness: a move processed exactly cooldownMs after a signal and judged by the edge
\* gate.
C4_Witness ==
    /\ MoveDiscarded
    /\ lastEmitAt # NoSignal
    /\ now = lastEmitAt + cooldownMs
    /\ engineOut[1].reason = "insufficient_edge"


\* =========================================================================
\*  PolymarketFeed: rescheduling and validation
\* =========================================================================

\* C12: while the feed is running, every completed poll cycle (success or failure)
\* schedules exactly one new cycle, with delay currentBackoffMs when that is greater
\* than 0 and baseIntervalMs otherwise; and when every fetch completes, a completed
\* cycle (or start()) is always followed by a new fetch unless stop() is called.
C12_CycleReschedules ==
    /\ [][(fetches' < fetches /\ isRunning) =>
            \E t \in pollTimers' \ pollTimers :
                /\ pollTimers' = pollTimers \cup {t}
                /\ t.id = pollTimer'
                /\ t.delay = (IF currentBackoffMs' > 0 THEN currentBackoffMs'
                                                       ELSE baseIntervalMs)]_vars
    /\ (isRunning /\ polyEvent \in {"poly.snapshot", "poly.poll.error", "poly.feed.started"})
          ~> (~isRunning \/ polyEvent = "poll.fetch")

\* A cycle failed for the second time in a row and the next one waits the backoff.
C12_Witness ==
    /\ isRunning
    /\ polyEvent = "poly.poll.error"
    /\ consecutiveErrors = 2
    /\ currentBackoffMs > baseIntervalMs
    /\ \E t \in pollTimers : t.id = pollTimer /\ t.delay = currentBackoffMs

\* C13: a poll that yields a valid normalized snapshot sets consecutiveErrors and
\* currentBackoffMs to 0 whatever the number of errors before it, and the next cycle
\* (scheduled when the feed is running) waits the base interval.
C13_SuccessResets ==
    [][(fetches' < fetches /\ polyEvent' = "poly.snapshot") =>
          /\ consecutiveErrors' = 0
          /\ currentBackoffMs' = 0
          /\ isRunning => \E t \in pollTimers' \ pollTimers :
                              t.id = pollTimer' /\ t.delay = baseIntervalMs]_vars

\* A snapshot came after three consecutive errors and the next cycle waits the base.
C13_Witness ==
    /\ polyEvent = "poly.snapshot"
    /\ lastPoll.errorsBefore >= 3
    /\ consecutiveErrors = 0
    /\ currentBackoffMs = 0
    /\ \E t \in pollTimers : t.id = pollTimer /\ t.delay = baseIntervalMs

FinitePositive(x) == x.k = "fin" /\ x.v > 0

\* An orderbook the specification calls invalid: a side is empty, or the best bid or
\* the best ask does not parse to a finite value greater than 0.
InvalidBook(b) ==
    /\ b.kind = "book"
    /\ \/ Len(b.bids) = 0
       \/ Len(b.asks) = 0
       \/ ~FinitePositive(parseFloat(sortBidsDesc(b.bids)[1].price))
       \/ ~FinitePositive(parseFloat(sortAsksAsc(b.asks)[1].price))

\* C14: an orderbook with an empty side, or whose best bid or best ask does not parse
\* to a finite value greater than 0, yields no snapshot and counts as a poll error:
\* consecutiveErrors goes up by one and the backoff is set as for a fetch failure.
C14_InvalidBookIsPollError ==
    [][(fetches' < fetches /\ InvalidBook(lastPoll'.result)) =>
          /\ polyEvent' = "poly.poll.error"
          /\ consecutiveErrors' = consecutiveErrors + 1
          /\ currentBackoffMs' = ClaimedBackoff(baseIntervalMs, consecutiveErrors + 1)]_vars



\* =========================================================================
\*  Properties: BinanceSpotFeed message handling (SpotTickSpec, DownsampleSpec)
\* =========================================================================

\* A message the specification says is dropped: not parseable, a required field
\* missing, or a price that does not parse to a finite positive number.
BadMessage(msg) ==
    \/ msg.kind \in {"garbage", "no_price", "no_symbol"}
    \/ msg.kind = "trade" /\ ~FinitePositive(parseFloat(msg.p))

\* C15: a stream message that is unparseable, lacks a required field, or whose price
\* does not parse to a finite positive number is dropped: it changes neither the
\* symbol's window, nor its downsample clock, nor its latest price.
C15_BadMessageDropped ==
    [][(msgCount' = msgCount + 1 /\ BadMessage(tickEvent'.msg)) =>
          /\ priceBuffer' = priceBuffer
          /\ lastSampleTime' = lastSampleTime
          /\ latestPrice' = latestPrice]_vars

\* C16: a move event is emitted only if windowMs >= 0.8 * returnWindowMs and
\* |returnBps| >= the move threshold; a return over a shorter window emits none,
\* however large it is.
C16_MoveGating ==
    [][(msgCount' = msgCount + 1 /\ tickEvent'.move) =>
          /\ tickEvent'.ret # NoReturn
          /\ tickEvent'.ret.windowMs * 10 >= returnWindowMs * 8
          /\ ReturnAbsAtLeast(tickEvent'.ret.returnBps, SPOT_MOVE_THRESHOLD_BPS)]_vars

\* A return of at least the threshold over too short a window emitted no move.
C16_Witness ==
    /\ tickEvent.ret # NoReturn
    /\ ReturnAbsAtLeast(tickEvent.ret.returnBps, SPOT_MOVE_THRESHOLD_BPS)
    /\ tickEvent.ret.windowMs * 10 < returnWindowMs * 8
    /\ ~tickEvent.move

\* C17: the current price and windowMs of every computed return are those of a tick
\* resident in the symbol's window at that moment (measured from the oldest resident
\* tick), never of a tick the downsample gate rejected.
C17_ReturnUsesResidentTicks ==
    [][(msgCount' = msgCount + 1 /\ tickEvent'.ret # NoReturn) =>
          LET window == priceBuffer'[tickEvent'.symbol]
          IN  \E i \in 1..Len(window) :
                  /\ window[i].price = tickEvent'.ret.currentPrice
                  /\ window[i].tsLocal - window[1].tsLocal = tickEvent'.ret.windowMs]_vars

\* C18: after an admitted tick with local time now is processed, every tick in that
\* symbol's window has local time >= now - returnWindowMs, the ticks are in arrival
\* order, and the window is the old window plus the new tick less some oldest ticks.
C18_WindowMonotone ==
    [][(msgCount' = msgCount + 1 /\ tickEvent'.admitted) =>
          LET symbol == tickEvent'.symbol
              old == priceBuffer[symbol]
              new == priceBuffer'[symbol]
              tick == [price |-> parseFloat(tickEvent'.msg.p), tsLocal |-> tickClock']
          IN  /\ \A i \in 1..Len(new) : new[i].tsLocal >= tickClock' - returnWindowMs
              /\ \A i, j \in 1..Len(new) : i < j => new[i].tsLocal < new[j].tsLocal
              /\ \E n \in 0..(Len(old) + 1) :
                     new = SubSeq(Append(old, tick), n + 1, Len(old) + 1)]_vars

\* The third admitted tick of a symbol evicted the first from its window.
C18_Witness ==
    /\ tickEvent.admitted
    /\ admittedCount[tickEvent.symbol] = 3
    /\ Len(priceBuffer[tickEvent.symbol]) = 2
    /\ priceBuffer[tickEvent.symbol][2].tsLocal = tickClock

\* C19: when one symbol receives ticks at local times t, t+1, ..., t+k, exactly
\* floor(k / S) + 1 of them are admitted (S the sample interval): a tick is admitted
\* iff its local time is at least S after that of the last admitted tick, and a
\* rejected tick leaves the downsample clock as it was.
C19_Downsampling ==
    /\ [](msgCount >= 1 =>
            admittedCount["BTCUSDT"] = ((msgCount - 1) \div sampleMs) + 1)
    /\ [][msgCount' = msgCount + 1 =>
            /\ tickEvent'.admitted <=>
                   (tickClock' - lastSampleTime["BTCUSDT"] >= sampleMs)
            /\ ~tickEvent'.admitted => lastSampleTime' = lastSampleTime]_vars

\* Seven ticks, one a millisecond, with S = 3: the first, fourth and seventh admitted.
C19_Witness ==
    /\ msgCount = 7
    /\ sampleMs = 3
    /\ tickClock = StartNow + 7
    /\ admittedCount["BTCUSDT"] = 3
    /\ tickEvent.admitted

\* C11: every move event of the streaming feed results in a processSpotMove call on
\* the signal engine with that move's symbol and direction, and every valid snapshot
\* of the polling feed results in an updatePolySnapshot call on the engine.
C11_EventsReachEngine ==
    [][/\ (msgCount' = msgCount + 1 /\ tickEvent'.move) =>
              /\ engineCall'.op = "processSpotMove"
              /\ engineCall'.move.symbol = tickEvent'.symbol
              /\ engineCall'.move.direction = tickEvent'.ret.direction
       /\ (fetches' < fetches /\ polyEvent' = "poly.snapshot") =>
              engineCall'.op = "updatePolySnapshot"]_vars



\* C20: the onopen handler sets reconnectAttempt to 0, so the first reconnect
\* scheduled after a successful open waits 1 s, however many attempts came before.
C20_OpenResetsLadder ==
    /\ [][spotEvent'.type = "spot.ws.connected" => reconnectAttempt' = 0]_vars
    /\ [][(openPhase = "opened" /\ openPhase' = "rescheduled") =>
              spotEvent'.delay = 1000]_vars



\* =========================================================================
\*  Properties: start-up failure (SpotFeedSpec)
\* =========================================================================

\* C21: when constructing the transport throws synchronously during start(), the
\* failure propagates to the caller of start().
C21_StartFailurePropagates ==
    (spotEvent.type = "start" /\ spotEvent.was = "spot.ws.connection_failed")
        => spotRaised

\* -------------------------------------------------------------------------
\*  Properties: the first move of a new engine (EngineEpochSpec)
\* -------------------------------------------------------------------------
\* C22: on a freshly constructed engine the first processSpotMove call is never
\* discarded with reason cooldown, whatever the current time and the cooldown.
C22_FirstMoveNotCooldown ==
    [][(~movesSeen /\ engineCall'.op = "processSpotMove")
          => \A i \in 1..Len(engineOut') : engineOut'[i].reason # "cooldown"]_vars

\* -------------------------------------------------------------------------
\*  Properties: the edge (EngineSpec)
\* -------------------------------------------------------------------------
\* The counterpart move of a history in basis points, from the claim's formula: 0
\* below two entries; for two finite mid prices the number p with
\* p * oldest = (newest - oldest) * 10000; what the division of doubles gives when a
\* mid price is not finite.
PolyMoveBpsOf(history) ==
    IF Len(history) < 2 THEN Fin(0)
    ELSE IF history[1].midPrice.k = "fin" /\ history[Len(history)].midPrice.k = "fin"
    THEN Fin(CHOOSE p \in -10000..10000 :
                p * history[1].midPrice.v
                    = (history[Len(history)].midPrice.v - history[1].midPrice.v) * 10000)
    ELSE ReturnRatioBps(history[Len(history)].midPrice, history[1].midPrice)

Magnitude(x) ==
    IF x.k = "fin" THEN Fin(IF x.v >= 0 THEN x.v ELSE 0 - x.v)
    ELSE IF x.k = "inf" THEN Inf(1) ELSE NaN

\* The four earlier gates pass for a call made now: none of them discards the move.
EarlierGatesPass ==
    /\ Len(polySnapshots) > 0
    /\ ~GreaterThan(polySnapshots[Len(polySnapshots)].spreadBps, ARB_MAX_POLY_SPREAD_BPS)
    /\ ~LessThan(polySnapshots[Len(polySnapshots)].depthTopN, ARB_MIN_POLY_DEPTH)
    /\ now' - lastSignalTime >= cooldownMs

\* C23: polyMoveBps is 0 below two snapshots and otherwise (newest/oldest - 1) * 10000
\* over the oldest and newest entries; edgeBps = |moveBps| - |polyMoveBps| whatever the
\* signs; a move that passed the four earlier gates emits a signal iff edgeBps is at
\* least the minimum edge.
C23_EdgeRule ==
    [][(engineCall'.op = "processSpotMove" /\ EarlierGatesPass) =>
            LET edge == Sub(Magnitude(engineCall'.move.moveBps),
                            Magnitude(PolyMoveBpsOf(polySnapshots)))
            IN  /\ Len(engineOut') = 1
                /\ (engineOut'[1].type = "arb.signal") <=> AtLeast(edge, ARB_MIN_EDGE_BPS)
                /\ engineOut'[1].type = "arb.signal" => engineOut'[1].edgeBps = edge
                /\ engineOut'[1].type # "arb.signal"
                        => engineOut'[1] = Discard("insufficient_edge")]_vars

\* -------------------------------------------------------------------------
\*  Properties: the snapshot history (EngineSpec)
\* -------------------------------------------------------------------------
RECURSIVE IsSubsequence(_, _)
\* The entries of `part` are entries of `whole`, in the same order.
IsSubsequence(part, whole) ==
    IF part = <<>> THEN TRUE
    ELSE IF whole = <<>> THEN FALSE
    ELSE IF part[1] = whole[1] THEN IsSubsequence(Tail(part), Tail(whole))
    ELSE IsSubsequence(part, Tail(whole))

\* C24: right after an updatePolySnapshot call made at time now every history entry has
\* timestamp >= now - 60000, the surviving entries keep their insertion order, and the
\* snapshot passed in is the last entry whenever its own timestamp is in that window.
C24_HistoryPruned ==
    [][engineCall'.op = "updatePolySnapshot" =>
            LET passed == engineCall'.snapshot
            IN  /\ \A i \in 1..Len(polySnapshots') :
                        polySnapshots'[i].timestamp >= now' - 60000
                /\ IsSubsequence(polySnapshots', Append(polySnapshots, passed))
                /\ passed.timestamp >= now' - 60000 =>
                        /\ Len(polySnapshots') >= 1
                        /\ polySnapshots'[Len(polySnapshots')] = passed
                        /\ IsSubsequence(SubSeq(polySnapshots', 1, Len(polySnapshots') - 1),
                                         polySnapshots)]_vars

\* C24 witness: an update 60002 ms after construction that leaves an older entry
\* followed by the snapshot passed in; whatever was recorded at construction time is
\* outside the window by then.
C24_Witness ==
    /\ engineCall.op = "updatePolySnapshot"
    /\ now = StartNow + 2 * (snapshotWindowMs \div 2 + 1)
    /\ Len(polySnapshots) = 2
    /\ polySnapshots[1].timestamp < polySnapshots[2].timestamp
    /\ polySnapshots[2] = engineCall.snapshot

RECURSIVE OfInstrument(_, _)
\* The entries of the history that belong to instrument `tokenId`, in order.
OfInstrument(history, tokenId) ==
    IF history = <<>> THEN <<>>
    ELSE IF history[1].tokenId = tokenId
         THEN <<history[1]>> \o OfInstrument(Tail(history), tokenId)
         ELSE OfInstrument(Tail(history), tokenId)

\* C25: the history is kept per instrument: the counterpart movement behind a signal's
\* edge is taken over the snapshots of the instrument the signal names, never across
\* snapshots of different instruments.
C25_EdgePerInstrument ==
    (engineCall.op = "processSpotMove" /\ Len(engineOut) = 1
            /\ engineOut[1].type = "arb.signal") =>
        engineOut[1].edgeBps =
            Sub(Magnitude(engineOut[1].spotMoveBps),
                Magnitude(PolyMoveBpsOf(OfInstrument(polySnapshots,
                                                     engineOut[1].polyTokenId))))

\* -------------------------------------------------------------------------
\*  Properties: PolymarketFeed.start() (PolyFeedSpec)
\* -------------------------------------------------------------------------
\* The step is a call of start(): only start() logs one of these two events.
StartCalled == polyEvent' \in {"poly.feed.started", "poly.feed.already_running"}

\* C26: start() called while the feed is already running changes nothing: no further
\* poll timer is scheduled, consecutiveErrors and currentBackoffMs keep their values.
C26_StartWhileRunning ==
    [][(isRunning /\ StartCalled) =>
            /\ pollTimers' = pollTimers
            /\ pollTimer' = pollTimer
            /\ consecutiveErrors' = consecutiveErrors
            /\ currentBackoffMs' = currentBackoffMs
            /\ isRunning'
            /\ UNCHANGED <<inFlight, fetches, baseIntervalMs>>]_vars

\* C26 witness: start() refused on a running feed that is in backoff with its next poll
\* pending.
C26_Witness ==
    /\ polyEvent = "poly.feed.already_running"
    /\ isRunning
    /\ consecutiveErrors >= 1
    /\ currentBackoffMs > 0
    /\ \E t \in pollTimers : t.id = pollTimer /\ t.delay = currentBackoffMs

\* C27: start() on a feed that is not running sets consecutiveErrors and
\* currentBackoffMs to 0 and schedules the first poll after the base interval, also when
\* the feed was stopped in backoff; start() itself issues no fetch.
C27_StartResets ==
    [][(~isRunning /\ StartCalled) =>
            /\ isRunning'
            /\ consecutiveErrors' = 0
            /\ currentBackoffMs' = 0
            /\ \E t \in pollTimers' \ pollTimers :
                    /\ t.id = pollTimer'
                    /\ t.delay = baseIntervalMs
                    /\ pollTimers' = pollTimers \cup {t}
            /\ fetches' = fetches
            /\ inFlight' = inFlight]_vars

\* C27 witness: a feed started again after its last poll failed (so it was stopped with
\* an error counted and a backoff set): counters at 0, next poll after the base interval.
C27_Witness ==
    /\ polyEvent = "poly.feed.started"
    /\ lastPoll.result.kind = "throw"
    /\ fetches = 0
    /\ consecutiveErrors = 0
    /\ currentBackoffMs = 0
    /\ \E t \in pollTimers : t.id = pollTimer /\ t.delay = baseIntervalMs

\* -------------------------------------------------------------------------
\*  Properties: latest price and per-symbol state (SpotTickSpec)
\* -------------------------------------------------------------------------
\* The message is a trade with a symbol and a price that parses to a number.
ParsedTick(msg) == msg.kind = "trade" /\ ~isNaN(parseFloat(msg.p))

\* The symbol a trade message is for, read off the message.
SymbolOf(msg) == IF msg.s \in {"btcusdt", "BTCUSDT"} THEN "BTCUSDT" ELSE "ETHUSDT"

\* C28: every successfully parsed tick, admitted into the window by the downsample gate
\* or not, sets its symbol's latest price to the tick's price.
C28_LatestPriceAlwaysSet ==
    ParsedTick(tickEvent.msg) =>
        latestPrice[SymbolOf(tickEvent.msg)] = parseFloat(tickEvent.msg.p)

\* C28 witness: a tick the downsample gate rejected, at a price other than that of the
\* newest tick in the window, is the latest price.
C28_Witness ==
    /\ ParsedTick(tickEvent.msg)
    /\ tickEvent.outcome = "tick"
    /\ ~tickEvent.admitted
    /\ LET w == priceBuffer[SymbolOf(tickEvent.msg)]
       IN  /\ Len(w) >= 1
           /\ w[Len(w)].price # parseFloat(tickEvent.msg.p)
    /\ latestPrice[SymbolOf(tickEvent.msg)] = parseFloat(tickEvent.msg.p)

\* C29: within one symbol ticks are processed in arrival order, and processing a tick
\* of one symbol leaves every other symbol's window, downsample clock and latest price
\* unchanged.
C29_SymbolsIndependent ==
    [][(msgCount' = msgCount + 1 /\ tickEvent'.msg.kind = "trade") =>
            LET sym == SymbolOf(tickEvent'.msg)
                w == priceBuffer'[sym]
            IN  /\ \A other \in Symbols \ {sym} :
                        /\ priceBuffer'[other] = priceBuffer[other]
                        /\ lastSampleTime'[other] = lastSampleTime[other]
                        /\ latestPrice'[other] = latestPrice[other]
                /\ latestPrice'[sym] = parseFloat(tickEvent'.msg.p)
                /\ lastSampleTime'[sym] >= lastSampleTime[sym]
                /\ \A i \in 1..Len(w), j \in 1..Len(w) :
                        i < j => w[i].tsLocal <= w[j].tsLocal
                /\ tickEvent'.admitted =>
                        w[Len(w)] = [price |-> parseFloat(tickEvent'.msg.p),
                                     tsLocal |-> tickClock']]_vars

\* C29 witness: a tick of ETHUSDT processed while BTCUSDT has a window, a downsample
\* clock and a latest price of its own from an earlier tick.
C29_Witness ==
    /\ tickEvent.outcome = "tick"
    /\ SymbolOf(tickEvent.msg) = "ETHUSDT"
    /\ tickEvent.admitted
    /\ Len(priceBuffer["BTCUSDT"]) >= 1
    /\ latestPrice["BTCUSDT"] # NoPrice
    /\ latestPrice["BTCUSDT"] # latestPrice["ETHUSDT"]
    /\ lastSampleTime["BTCUSDT"] > 0
    /\ lastSampleTime["BTCUSDT"] < lastSampleTime["ETHUSDT"]

\* -------------------------------------------------------------------------
\*  Properties: the return between two ticks (DownsampleSpec)
\* -------------------------------------------------------------------------
\* A return was computed for the tick just processed: the current tick is the message's
\* price at the clock's time, the past tick the oldest of the symbol's window.
ReturnComputed == tickEvent.outcome = "tick" /\ tickEvent.ret # NoReturn

\* A price that is a whole number, in units of 1 (prices are held in hundredths).
Whole(x) == x.v \div 100

\* C30: returnBps = (current.price / past.price - 1) * 10000, windowMs =
\* current.tsLocal - past.tsLocal, direction up when returnBps is positive and down when
\* it is negative; oldest 100 at t0 and newest 110 at t1 give returnBps 1000, direction
\* up and windowMs t1 - t0.
C30_ReturnFormula ==
    ReturnComputed =>
        LET current == parseFloat(tickEvent.msg.p)
            past == priceBuffer[SymbolOf(tickEvent.msg)][1]
            ret == tickEvent.ret
        IN  /\ ret.windowMs = tickClock - past.tsLocal
            /\ ret.returnBps.k = "ratio"
            \* returnBps * past = (current - past) * 10000, in whole price units
            /\ ret.returnBps.num * Whole(past.price)
                    = (Whole(current) - Whole(past.price)) * 10000 * ret.returnBps.den
            /\ current.v > past.price.v => ret.direction = "up"
            /\ current.v < past.price.v => ret.direction = "down"
            /\ (current = Fin(11000) /\ past.price = Fin(10000)) =>
                    /\ ret.returnBps.num = 1000 * ret.returnBps.den
                    /\ ret.direction = "up"

\* C30 witness: the return of a tick at 110 against an oldest tick at 100, over a
\* window of at least one millisecond.
C30_Witness ==
    /\ ReturnComputed
    /\ parseFloat(tickEvent.msg.p) = Fin(11000)
    /\ priceBuffer[SymbolOf(tickEvent.msg)][1].price = Fin(10000)
    /\ tickEvent.ret.windowMs >= 1
    /\ tickEvent.ret.direction = "up"

\* -------------------------------------------------------------------------
\*  Properties: orderbook normalization (PolyFeedSpec)
\* -------------------------------------------------------------------------
\* An orderbook with levels on both sides, every price a finite number above 0.
WellFormedBook(b) ==
    /\ b.kind = "book"
    /\ Len(b.bids) > 0
    /\ Len(b.asks) > 0
    /\ \A i \in 1..Len(b.bids) : FinitePositive(parseFloat(b.bids[i].price))
    /\ \A i \in 1..Len(b.asks) : FinitePositive(parseFloat(b.asks[i].price))

\* The prices of the levels, in hundredths.
PricesOf(levels) == {parseFloat(levels[i].price).v : i \in 1..Len(levels)}
HighestOf(prices) == CHOOSE p \in prices : \A q \in prices : q <= p
LowestOf(prices) == CHOOSE p \in prices : \A q \in prices : p <= q

\* The poll whose fetch has just completed returned a well-formed orderbook.
WellFormedBookPolled == fetches' < fetches /\ WellFormedBook(lastPoll'.result)

\* The prices of the levels that parse to finite numbers, in hundredths.
FinitePricesOf(levels) ==
    {parseFloat(levels[i].price).v :
        i \in {j \in 1..Len(levels) : parseFloat(levels[j].price).k = "fin"}}
NoInfinitePrice(levels) == \A i \in 1..Len(levels) : parseFloat(levels[i].price).k # "inf"

\* The poll whose fetch has just completed returned an orderbook without an infinite
\* price, and a snapshot was made of it.
SnapshotOfBookPolled ==
    /\ fetches' < fetches
    /\ lastPoll'.result.kind = "book"
    /\ lastPoll'.data # Null
    /\ NoInfinitePrice(lastPoll'.result.bids)
    /\ NoInfinitePrice(lastPoll'.result.asks)

\* C31: normalization takes bestBid as the highest bid price and bestAsk as the lowest
\* ask price whatever the order of the levels, and accepts a crossed book
\* (bestBid > bestAsk): it yields a snapshot with a negative spreadBps, raises nothing
\* and is not counted as a poll error.
C31_BestPricesAndCrossedBook ==
    [][/\ SnapshotOfBookPolled =>
            /\ lastPoll'.data.bestBid
                    = Fin(HighestOf(FinitePricesOf(lastPoll'.result.bids)))
            /\ lastPoll'.data.bestAsk
                    = Fin(LowestOf(FinitePricesOf(lastPoll'.result.asks)))
       /\ WellFormedBookPolled =>
            LET book == lastPoll'.result
                data == lastPoll'.data
                bid == HighestOf(PricesOf(book.bids))
                ask == LowestOf(PricesOf(book.asks))
            IN  /\ data # Null
                /\ data.spreadBps.k = "ratio"
                /\ data.spreadBps.den > 0
                \* spreadBps * (bid + ask) / 2 = (ask - bid) * 10000, both sides over 100
                /\ (data.spreadBps.num \div 100) * (bid + ask)
                        = (ask - bid) * 200 * data.spreadBps.den
                /\ bid > ask => data.spreadBps.num < 0
                /\ polyEvent' = "poly.snapshot"
                /\ consecutiveErrors' = 0
                /\ currentBackoffMs' = 0]_vars

\* Level i is one of the n best of its side: fewer than n levels have a better price
\* (higher for bids, lower for asks).  The prices of a side are distinct in the books
\* polled, so this names min(n, Len(levels)) levels.
AmongBest(levels, i, n, bidSide) ==
    Cardinality({j \in 1..Len(levels) :
                    IF bidSide
                    THEN parseFloat(levels[j].price).v > parseFloat(levels[i].price).v
                    ELSE parseFloat(levels[j].price).v < parseFloat(levels[i].price).v}) < n

RECURSIVE BestSizes(_, _, _, _)
\* The sum of the sizes, in hundredths, of those of the first k levels that are among
\* the n best.
BestSizes(levels, k, n, bidSide) ==
    IF k = 0 THEN 0
    ELSE BestSizes(levels, k - 1, n, bidSide)
            + (IF AmongBest(levels, k, n, bidSide) THEN parseFloat(levels[k].size).v ELSE 0)

RECURSIVE SizesOfFirst(_, _)
\* The sum of the sizes, in hundredths, of the first n levels.
SizesOfFirst(levels, n) ==
    IF n = 0 THEN 0
    ELSE SizesOfFirst(levels, n - 1) + parseFloat(levels[n].size).v

\* The poll whose fetch has just completed returned an orderbook of which a snapshot
\* was made.
SnapshotPolled ==
    /\ fetches' < fetches
    /\ lastPoll'.result.kind = "book"
    /\ lastPoll'.data # Null

\* C32: depthTopN is the sum of the sizes of the min(depthLevels, number of levels) best
\* bid levels plus the same on the ask side of the sorted book; a side with fewer than
\* depthLevels levels contributes its existing levels only.  In every snapshot the
\* levels summed are the first ones of the sorted sides, and in a book whose prices
\* all parse they are the best ones by price.
C32_DepthTopN ==
    [][/\ SnapshotPolled =>
            LET sortedBids == sortBidsDesc(lastPoll'.result.bids)
                sortedAsks == sortAsksAsc(lastPoll'.result.asks)
            IN  lastPoll'.data.depthTopN =
                    Fin(SizesOfFirst(sortedBids, Min(POLY_DEPTH_LEVELS, Len(sortedBids)))
                        + SizesOfFirst(sortedAsks, Min(POLY_DEPTH_LEVELS, Len(sortedAsks))))
       /\ WellFormedBookPolled =>
            LET book == lastPoll'.result
            IN  lastPoll'.data.depthTopN =
                    Fin(BestSizes(book.bids, Len(book.bids), POLY_DEPTH_LEVELS, TRUE)
                        + BestSizes(book.asks, Len(book.asks), POLY_DEPTH_LEVELS, FALSE))]_vars

\* C32 witness: with depthLevels = 2, three bid levels (sizes 5, 3, 2 at 0.39, 0.41,
\* 0.40) and one ask level (size 3) give a depth of 3 + 2 + 3 = 8.
C32_Witness ==
    /\ polyEvent = "poly.snapshot"
    /\ WellFormedBook(lastPoll.result)
    /\ Len(lastPoll.result.bids) > POLY_DEPTH_LEVELS
    /\ Len(lastPoll.result.asks) < POLY_DEPTH_LEVELS
    /\ lastPoll.data.depthTopN = Fin(800)

\* -------------------------------------------------------------------------
\*  Properties: one chain per feed (PolyFeedSpec, SpotFeedSpec)
\* -------------------------------------------------------------------------
\* C33: in the polling feed at most one poll timer is pending at any time, whatever the
\* sequence of start(), stop(), timer firings and fetch completions, stop() followed by
\* start() during a fetch included.
C33_OnePollTimer == Cardinality(pollTimers) <= 1

\* C34: in the streaming feed at most one transport is live (connecting or open) and at
\* most one reconnect timer is pending at any time, start() called twice included.
C34_OneTransportOneTimer ==
    /\ Cardinality({s \in sockets : s.state \in {"connecting", "open"}}) <= 1
    /\ Cardinality(reconnectTimers) <= 1

\* -------------------------------------------------------------------------
\*  Properties: the engine's gates, signals and state (EngineSpec)
\* -------------------------------------------------------------------------
\* C35: the snapshot processSpotMove judges a move against is never older than 60000 ms
\* at the time of the call: without an update in the last 60 s the move is discarded
\* as no_poly_snapshot.
C35_NoStaleSnapshot ==
    (engineCall.op = "processSpotMove" /\ engineOut # <<Discard("no_poly_snapshot")>>) =>
        /\ Len(polySnapshots) > 0
        /\ polySnapshots[Len(polySnapshots)].timestamp >= now - 60000

\* The call just made emitted a signal.
SignalEmitted ==
    /\ engineCall.op = "processSpotMove"
    /\ \E i \in 1..Len(engineOut) : engineOut[i].type = "arb.signal"

\* C36: every emitted signal meets all thresholds when it is emitted: the history is not
\* empty, the latest snapshot has spreadBps <= the maximum and depthTopN >= the minimum,
\* edgeBps >= the minimum edge, and the signal's instrument id, mid price, spread and
\* depth are those of that latest snapshot.
C36_SignalMeetsThresholds ==
    \A i \in 1..Len(engineOut) :
        (engineCall.op = "processSpotMove" /\ engineOut[i].type = "arb.signal") =>
            /\ Len(polySnapshots) > 0
            /\ LET latest == polySnapshots[Len(polySnapshots)]
                   signal == engineOut[i]
               IN  /\ AtMost(latest.spreadBps, ARB_MAX_POLY_SPREAD_BPS)
                   /\ AtLeast(latest.depthTopN, ARB_MIN_POLY_DEPTH)
                   /\ AtLeast(signal.edgeBps, ARB_MIN_EDGE_BPS)
                   /\ signal.polyTokenId = latest.tokenId
                   /\ signal.polyMidPrice = latest.midPrice
                   /\ signal.polySpreadBps = latest.spreadBps
                   /\ signal.polyDepth = latest.depthTopN

\* C37: any two signals of one engine are at least cooldownMs apart, whatever the
\* symbols of the two moves: after a signal for one symbol, a move of any symbol made
\* less than cooldownMs later emits nothing.
C37_CooldownEngineWide ==
    [][(engineCall'.op = "processSpotMove" /\ lastEmitAt # NoSignal
            /\ now' - lastEmitAt < cooldownMs) =>
            \A i \in 1..Len(engineOut') : engineOut'[i].type # "arb.signal"]_vars

\* C37 witness: a move of one symbol discarded as cooldown, the signal that started the
\* cooldown having been for the other symbol.
C37_Witness ==
    /\ engineCall.op = "processSpotMove"
    /\ engineOut = <<Discard("cooldown")>>
    /\ lastEmitSymbol # ""
    /\ engineCall.move.symbol # lastEmitSymbol
    /\ now - lastEmitAt < cooldownMs

\* C38: a processSpotMove call that discards leaves lastSignalTime and the history
\* unchanged, a call that emits changes only lastSignalTime, to the time of the call,
\* and updatePolySnapshot changes only the history, never lastSignalTime.
C38_EngineFrame ==
    [][/\ engineCall'.op = "processSpotMove" =>
            /\ polySnapshots' = polySnapshots
            /\ IF \E i \in 1..Len(engineOut') : engineOut'[i].type = "arb.signal"
               THEN lastSignalTime' = now'
               ELSE lastSignalTime' = lastSignalTime
       /\ engineCall'.op = "updatePolySnapshot" => lastSignalTime' = lastSignalTime
       /\ cooldownMs' = cooldownMs]_vars

\* C38 witness: an insufficient_edge discard some time after a signal, the cooldown
\* timestamp still that of the signal.
C38_Witness ==
    /\ MoveDiscarded
    /\ engineOut[1].reason = "insufficient_edge"
    /\ lastEmitAt # NoSignal
    /\ lastSignalTime = lastEmitAt
    /\ now > lastSignalTime
    /\ Len(polySnapshots) >= 1

\* -------------------------------------------------------------------------
\*  Properties: the window of an emitted move (DownsampleSpec)
\* -------------------------------------------------------------------------
\* C39: every emitted move event has windowMs between 0.8 * returnWindowMs and
\* returnWindowMs: the return is never measured against a tick older than the return
\* window, also for a tick the downsample gate rejected.
C39_MoveWindowInRange ==
    (tickEvent.outcome = "tick" /\ tickEvent.move) =>
        /\ tickEvent.ret.windowMs * 10 >= returnWindowMs * 8
        /\ tickEvent.ret.windowMs <= returnWindowMs

\* -------------------------------------------------------------------------
\*  Properties: the delay after a poll error (PolyFeedSpec)
\* -------------------------------------------------------------------------
\* C40: the delay before the poll that follows a poll error is never shorter than the
\* base interval and never decreases from one consecutive error to the next, for every
\* positive base interval, those above the 30000 ms cap included.
C40_ErrorDelayAtLeastBase ==
    [][(polyEvent' = "poly.poll.error" /\ isRunning') =>
            \E t \in pollTimers' \ pollTimers :
                /\ t.id = pollTimer'
                /\ t.delay >= baseIntervalMs
                /\ consecutiveErrors >= 1 => t.delay >= currentBackoffMs]_vars
====
